---- MODULE Spec2Model ----
(***************************************************************************)
(* Trigger authorization and accounting pipeline of the Webcuts worker:    *)
(* handleWebhookRequestV2 (handlers/webhook_v2.js), validateWebhookAccess  *)
(* (middleware/auth.js), DatabaseServiceV2 (services/database_v2.js) and   *)
(* the V2 schema with its update_shortcut_trigger_count trigger.           *)
(*                                                                         *)
(* A request takes one step per awaited store operation that another       *)
(* request can observe; requests interleave between these steps.           *)
(* A nullable column is a sequence of length 0 (NULL) or 1 (the value).    *)
(***************************************************************************)
EXTENDS Integers, Sequences, FiniteSets, TLC

\* ------------------------------------------------------------------ bounds
MaxRequests == 2
MaxChecks == 3
MaxTime == 2
TicksPerMinute == 2
MaxUsesBound == 1
MaxObserved == 1
MaxCallers == 2
MaxCalls == 2
RateLimitPerMinute == 1
UserRateLimitPerMinute == 2

\* ------------------------------------------------------- program constants
MaxPayloadSize == 4096
WindowMinutes == 1
SessionHours == 24

Reqs == 1..(IF MaxRequests >= MaxChecks THEN MaxRequests ELSE MaxChecks)

\* ------------------------------------------------------------------- state
VARIABLES
    shortcuts,           \* shortcuts table: row id -> row
    devices,             \* the owning device row
    users,               \* the owning user row
    rate_limits,         \* rate_limits table: <<identifier, window_start>> -> request_count (0: no row)
    webhook_executions,  \* webhook_executions table, in insertion order
    analytics,           \* analytics table: webhook_id -> the row of the current date
    audit_log,           \* audit_log table, in insertion order
    now,                 \* the clock, in ticks
    pc,                  \* per request: the await it is suspended at
    reqWebhookId,        \* per request: the webhookId path parameter
    payloadSize,         \* per request: JSON.stringify(payload).length
    gate,                \* per request: what validateWebhookAccess returned
    rl,                  \* per request: locals and result of checkRateLimit
    notif,               \* per request: notificationResult.success ("sent" / "not_sent")
    resp,                \* per request: the response returned
    dispatchCount,       \* per request: calls of sendPushNotification
    started,             \* number of requests received so far
    incoming,            \* number of requests still to arrive
    peak,                \* largest number of requests ever in flight together
    rlPeak,              \* per identifier: largest number of checkRateLimit calls ever in flight together
    observed,            \* per request: the request as it was sent, when the run records it
    sessions,            \* sessions table: row id -> row
    api_keys,            \* user_api_keys table: row id -> row
    webhook_rotations,   \* webhook_rotations table, in insertion order
    user_account,        \* the password_hash and is_verified columns of the user's row
    console,             \* the lines written to the console that carry row data
    call,                \* the latest call of an account or management operation and what it returned
    v1,                  \* the tables as the routed handlers and DatabaseService keep them
    env,                 \* the bindings of the worker: WEBHOOK_SECRET
    dbInitialized,       \* the flag of the worker instance: let dbInitialized = false
    tablesCreated        \* whether the tables of the store exist

vars == <<shortcuts, devices, users, rate_limits, webhook_executions, analytics,
          audit_log, now, pc, reqWebhookId, payloadSize, gate, rl, notif, resp,
          dispatchCount, started, incoming, peak, rlPeak, observed,
          sessions, api_keys, webhook_rotations, user_account, console, call, v1, env,
          dbInitialized, tablesCreated>>

\* what the trigger pipeline never touches
acctVars == <<sessions, api_keys, webhook_rotations, user_account, console, call, v1, env,
              dbInitialized, tablesCreated>>

\* the store and the bindings of the routed handlers
v1Vars == <<v1, env, dbInitialized, tablesCreated>>

\* the per-request variables of the trigger pipeline
handlerVars == <<pc, reqWebhookId, payloadSize, gate, rl, notif, resp, dispatchCount,
                 started, incoming, peak, rlPeak, observed>>

storeVars == <<shortcuts, devices, users, rate_limits, webhook_executions,
               analytics, audit_log>>

\* ----------------------------------------------------------------- helpers
Null == <<>>
Some(v) == <<v>>
IsNull(x) == x = <<>>
Val(x) == x[1]

ShortcutIds == {"s1"}
WebhookIds == {"wh1"}
RequestWebhookIds == WebhookIds \cup {"unknown"}
IpA == "203.0.113.5"
IpB == "198.51.100.1"

Max(a, b) == IF a >= b THEN a ELSE b

\* ------------------------------------------------------------ the requests
\* What a caller sends.  A header value is the sequence of its comma-separated
\* tokens, <<>> when the header is absent.  signature and cred say how the
\* presented material relates to the body, the secret and the stored
\* credentials.
HeaderChoices ==
    { [cf |-> <<>>,    xff |-> <<>>,         xri |-> <<>>],
      [cf |-> <<IpA>>, xff |-> <<>>,         xri |-> <<>>],
      [cf |-> <<IpB>>, xff |-> <<>>,         xri |-> <<>>],
      [cf |-> <<>>,    xff |-> <<IpA, IpB>>, xri |-> <<>>],
      [cf |-> <<>>,    xff |-> <<>>,         xri |-> <<IpA>>] }

\* The x-webhook-signature header, as the sequence of its characters; <<>> when
\* the header is absent.  "0" and "a" are hex digits, "z" is not.
Signatures ==
    { <<>>,                      \* no header
      <<"a", "0">>,              \* one byte, a0
      <<"0", "a">>,              \* one byte, 0a
      <<"a">>,                   \* shorter than one byte
      <<"a", "0", "a">>,         \* odd length
      <<"a", "0", "0", "a">>,    \* two bytes
      <<"a", "z">> }             \* not hex

Bodies == {"b1", "b2"}
Credentials == {"none", "session_valid", "session_expired", "apikey_valid", "apikey_invalid"}
PayloadSizes == {MaxPayloadSize, MaxPayloadSize + 1}

Requests ==
    [webhookId : RequestWebhookIds, headers : HeaderChoices, signature : Signatures,
     body : Bodies, cred : Credentials, payloadSize : PayloadSizes]

\* ------------------------------------------------------------ DatabaseServiceV2
\* the lookup without the join conditions on the device and the user
getShortcutIgnoringOwners(webhookId) ==
    LET hits == {s \in ShortcutIds :
                    shortcuts[s].webhook_id = webhookId /\ shortcuts[s].is_active}
    IN  IF hits = {} THEN <<>> ELSE <<shortcuts[CHOOSE s \in hits : TRUE]>>

\* SELECT s.*, d.*, u.* ... WHERE s.webhook_id = ? AND s.is_active = 1
\*   AND d.is_active = 1 AND u.is_active = 1
getShortcutByWebhook(webhookId) ==
    LET hits == {s \in ShortcutIds :
                    /\ shortcuts[s].webhook_id = webhookId
                    /\ shortcuts[s].is_active
                    /\ devices.is_active
                    /\ users.is_active}
    IN  IF hits = {} THEN Null ELSE Some(shortcuts[CHOOSE s \in hits : TRUE])

Minute(t) == t \div TicksPerMinute

\* windowStart.setSeconds(0, 0); setMinutes(floor(getMinutes() / windowMinutes) * windowMinutes):
\* getMinutes() is the minute of the hour, 0 to 59, and setMinutes keeps the hour
WindowStart(t, windowMinutes) ==
    LET hour == Minute(t) \div 60
        minutes == Minute(t) % 60
    IN  (hour * 60 + (minutes \div windowMinutes) * windowMinutes) * TicksPerMinute

\* the comparison with > in place of >=
ExceededStrictly(requestCount, maxRequests) == requestCount > maxRequests

\* if (result.request_count >= maxRequests) return { allowed: false, remaining: 0 }
RateLimitExceeded(requestCount, maxRequests) == requestCount >= maxRequests

\* return { allowed: true, remaining: maxRequests - 1 }  (no row: INSERT ... 1)
RemainingAfterInsert(maxRequests) == maxRequests - 1

\* the remainder before the increment
RemainingBeforeUpdate(requestCount, maxRequests) == maxRequests - requestCount

\* return { allowed: true, remaining: maxRequests - result.request_count - 1 }
RemainingAfterUpdate(requestCount, maxRequests) == maxRequests - requestCount - 1

\* the trigger without its WHEN clause: every inserted row counts
trigger_without_when(rows, new) ==
    [s \in DOMAIN rows |->
        IF rows[s].webhook_id = new.webhook_id
        THEN [rows[s] EXCEPT !.trigger_count = @ + 1,
                             !.last_triggered = Some(new.executed_at)]
        ELSE rows[s]]

\* CREATE TRIGGER update_shortcut_trigger_count AFTER INSERT ON webhook_executions
\*   WHEN NEW.status = 'success'
\*   UPDATE shortcuts SET trigger_count = trigger_count + 1, last_triggered = NEW.executed_at
\*   WHERE webhook_id = NEW.webhook_id
update_shortcut_trigger_count(rows, new) ==
    [s \in DOMAIN rows |->
        IF new.status = "success" /\ rows[s].webhook_id = new.webhook_id
        THEN [rows[s] EXCEPT !.trigger_count = @ + 1,
                             !.last_triggered = Some(new.executed_at)]
        ELSE rows[s]]

\* INSERT INTO analytics (..., 1, success ? 1 : 0, success ? 0 : 1, ...)   or
\* UPDATE analytics SET trigger_count = trigger_count + 1, success_count/failure_count + 1
updateAnalytics(rows, webhookId, success) ==
    IF webhookId \notin DOMAIN rows THEN rows
    ELSE IF IsNull(rows[webhookId])
    THEN [rows EXCEPT ![webhookId] =
            Some([trigger_count |-> 1,
                  success_count |-> IF success THEN 1 ELSE 0,
                  failure_count |-> IF success THEN 0 ELSE 1])]
    ELSE [rows EXCEPT ![webhookId] =
            Some([trigger_count |-> Val(@).trigger_count + 1,
                  success_count |-> Val(@).success_count + (IF success THEN 1 ELSE 0),
                  failure_count |-> Val(@).failure_count + (IF success THEN 0 ELSE 1)])]

\* the average with trigger_count read after its own increment
AverageFromNewCount(avg, triggerCount, responseTime) ==
    ((avg * (triggerCount + 1)) + responseTime) \div (triggerCount + 2)

\* avg_response_time_ms = ((avg_response_time_ms * trigger_count) + ?) / (trigger_count + 1):
\* the right-hand sides of an UPDATE read the row as it was before the statement,
\* and the division of integers drops the fraction
AverageAfterUpdate(avg, triggerCount, responseTime) ==
    ((avg * triggerCount) + responseTime) \div (triggerCount + 1)

\* Math.round((existing.avg_response_time_ms * existing.trigger_count + responseTime)
\*            / newTriggerCount): the nearest integer, a half going up
newAvgResponseTime(avg, triggerCount, responseTime) ==
    (2 * ((avg * triggerCount) + responseTime) + (triggerCount + 1))
        \div (2 * (triggerCount + 1))

\* no row is written
skipAuditLog(table, r, userId, action, resourceType, resourceId, ipAddress) == table

\* INSERT INTO audit_log (user_id, action, resource_type, resource_id, ...)
createAuditLog(table, r, userId, action, resourceType, resourceId, ipAddress) ==
    Append(table, [req |-> r, user_id |-> userId, action |-> action,
                   resource_type |-> resourceType, resource_id |-> resourceId,
                   ip_address |-> ipAddress])

\* ------------------------------------------------------------------ CryptoVault
\* HMAC-SHA256 of a message under a secret, as a sequence of bytes (one byte here)
HmacSha256(message, secret) ==
    IF message = "b1" THEN <<160>> ELSE <<10>>

\* b.toString(16): the hex digit of a value
HexChar(d) ==
    CASE d = 0  -> "0"
      [] d = 10 -> "a"

\* Array.from(bytes).map(b => b.toString(16).padStart(2, '0')).join(''): the
\* lower-case hex string of a byte sequence, the signature header a signer sends
ToHex(bytes) ==
    [i \in 1..(2 * Len(bytes)) |->
        IF i % 2 = 1 THEN HexChar(bytes[(i + 1) \div 2] \div 16)
        ELSE HexChar(bytes[i \div 2] % 16)]

\* the value of a hex digit, -1 for any other character
HexValue(c) ==
    CASE c = "0" -> 0
      [] c = "a" -> 10
      [] OTHER   -> -1

\* parseInt(byte, 16) reads the leading hex digits and is NaN when there is
\* none; Uint8Array.from stores NaN as 0
ParseByte(byte) ==
    IF HexValue(byte[1]) < 0 THEN 0
    ELSE IF HexValue(byte[2]) < 0 THEN HexValue(byte[1])
    ELSE 16 * HexValue(byte[1]) + HexValue(byte[2])

\* signature.match(/.{2}/g): the successive pairs of characters (a trailing odd
\* character is dropped), null when there is no pair
MatchPairs(signature) ==
    IF Len(signature) < 2 THEN Null
    ELSE Some([i \in 1..(Len(signature) \div 2) |->
                    <<signature[2 * i - 1], signature[2 * i]>>])

\* crypto.subtle.verify('HMAC', key, signatureBuffer, message)
SubtleVerify(signatureBuffer, mac) == signatureBuffer = mac

\* verifyHMAC(message, signature, secret): .map on the null of a signature
\* without a pair throws a TypeError
verifyHMAC(message, signature, secret) ==
    LET pairs == MatchPairs(signature)
    IN  IF IsNull(pairs) THEN "throw"
        ELSE IF SubtleVerify([i \in 1..Len(Val(pairs)) |-> ParseByte(Val(pairs)[i])],
                             HmacSha256(message, secret))
             THEN "true" ELSE "false"

\* decryptData: crypto.subtle.decrypt rejects when the blob does not authenticate
decryptData(device) == IF device.token_ok THEN "ok" ELSE "throw"


\* ---------------------------------------------------------- the account store
UserIds == {"u1"}
SessionIds == {"sess1", "sess2"}
KeyIds == {"key1", "key2"}
\* raw credentials: the first of each was issued, the second never was
SessionTokens == {"tok1", "tok2"}
ApiKeys == {"wc_k1", "wc_k2"}
Permissions == {"webhook:trigger", "webhook:read", "*"}

\* sha256(value): the digest stands for the value without being it
sha256(value) == <<"sha256", value>>

\* the sessions row of a login: expires_at is 24 hours after it, here a tick
\* within the run or one beyond it
SessionRows ==
    [token_hash : {sha256("tok1")}, user_id : UserIds,
     expires_at : {1, MaxTime + 1}, is_active : BOOLEAN]

\* the user_api_keys row createAPIKey inserted, used or not, with or without expiry
ApiKeyRows ==
    [key_hash : {sha256("wc_k1")}, key_prefix : {<<"prefix", "wc_k1">>}, user_id : UserIds,
     permissions : {{"webhook:trigger", "webhook:read"}, {"webhook:read"}, {"*"}},
     expires_at : {Null, Some(1)}, is_active : BOOLEAN,
     last_used : {Null}, last_used_ip : {Null}]

\* a row slot that holds no row yet
NoSession == [token_hash |-> Null, user_id |-> "u1", expires_at |-> 0, is_active |-> FALSE]
NoApiKey ==
    [key_hash |-> Null, key_prefix |-> Null, user_id |-> "u1", permissions |-> {},
     expires_at |-> Null, is_active |-> FALSE, last_used |-> Null, last_used_ip |-> Null]

\* INSERT INTO sessions (id, user_id, token_hash, expires_at, ...)
createSession(rows, id, sessionData) ==
    [rows EXCEPT ![id] = [token_hash |-> sessionData.token_hash,
                          user_id |-> sessionData.user_id,
                          expires_at |-> sessionData.expires_at, is_active |-> TRUE]]

\* INSERT INTO user_api_keys (id, user_id, key_hash, key_prefix, name, permissions)
createUserAPIKey(rows, id, keyData) ==
    [rows EXCEPT ![id] = [NoApiKey EXCEPT !.key_hash = keyData.key_hash,
                                         !.key_prefix = keyData.key_prefix,
                                         !.user_id = keyData.user_id,
                                         !.permissions = keyData.permissions,
                                         !.is_active = TRUE]]

\* SELECT * FROM sessions WHERE token_hash = ? AND is_active = 1
getSessionByTokenHash(rows, tokenHash) ==
    {s \in SessionIds : rows[s].token_hash = tokenHash /\ rows[s].is_active}

\* UPDATE sessions SET is_active = 0 WHERE id = ?
deactivateSession(rows, sessionId) == [rows EXCEPT ![sessionId].is_active = FALSE]

\* SELECT * FROM user_api_keys WHERE key_hash = ? AND is_active = 1
getUserAPIKeyByHash(rows, keyHash) ==
    {k \in KeyIds : rows[k].key_hash = keyHash /\ rows[k].is_active}

\* UPDATE user_api_keys SET is_active = 0 WHERE id = ?
deactivateAPIKey(rows, keyId) == [rows EXCEPT ![keyId].is_active = FALSE]

\* UPDATE user_api_keys SET last_used = CURRENT_TIMESTAMP, last_used_ip = ? WHERE id = ?
updateAPIKeyLastUsed(rows, keyId, ipAddress, t) ==
    [rows EXCEPT ![keyId].last_used = Some(t), ![keyId].last_used_ip = ipAddress]

\* ------------------------------------------------------------ webhook rotation
\* shortcuts.user_id: every shortcut of the run belongs to the one user
OwnerOf(shortcutId) == "u1"
Actors == {"u1", "u2"}

\* generateWebhookId() and generateWebhookSecret(): 32 random bytes each, so a
\* value that no row holds yet; the n-th pair of the run
GeneratedWebhooks ==
    <<[id |-> "wh2", secret |-> "whsec2"], [id |-> "wh3", secret |-> "whsec3"],
      [id |-> "wh4", secret |-> "whsec4"], [id |-> "wh5", secret |-> "whsec5"]>>

\* SELECT s.*, d.* FROM shortcuts s JOIN devices d ... WHERE s.webhook_id = ?
\*   AND s.user_id = ? AND s.is_active = 1 AND d.is_active = 1: the row ids
getShortcutByWebhookAndUser(webhookId, userId) ==
    {s \in ShortcutIds : /\ shortcuts[s].webhook_id = webhookId
                         /\ OwnerOf(s) = userId
                         /\ shortcuts[s].is_active
                         /\ devices.is_active}

\* a rotation that also starts the trigger count again
rotateResettingCount(shortcutId, userId, newWebhookId, newWebhookSecret, reason) ==
    IF ~(shortcutId \in ShortcutIds /\ OwnerOf(shortcutId) = userId)
    THEN [result |-> Null, shortcuts |-> shortcuts, webhook_rotations |-> webhook_rotations]
    ELSE [result |-> Some([oldWebhookId |-> shortcuts[shortcutId].webhook_id,
                           newWebhookId |-> newWebhookId]),
          shortcuts |-> [shortcuts EXCEPT ![shortcutId].webhook_id = newWebhookId,
                                          ![shortcutId].webhook_secret = Some(newWebhookSecret),
                                          ![shortcutId].trigger_count = 0,
                                          ![shortcutId].last_triggered = Null],
          webhook_rotations |-> Append(webhook_rotations,
                [shortcut_id |-> shortcutId,
                 old_webhook_id |-> shortcuts[shortcutId].webhook_id,
                 new_webhook_id |-> newWebhookId, rotated_by |-> userId,
                 reason |-> reason])]

\* rotateWebhookId(shortcutId, userId, newWebhookId, newWebhookSecret, reason):
\* null when the user has no such shortcut; else one batch that inserts the
\* webhook_rotations row and updates webhook_id and webhook_secret of the row
rotateWebhookId(shortcutId, userId, newWebhookId, newWebhookSecret, reason) ==
    IF ~(shortcutId \in ShortcutIds /\ OwnerOf(shortcutId) = userId)
    THEN [result |-> Null, shortcuts |-> shortcuts, webhook_rotations |-> webhook_rotations]
    ELSE [result |-> Some([oldWebhookId |-> shortcuts[shortcutId].webhook_id,
                           newWebhookId |-> newWebhookId]),
          shortcuts |-> [shortcuts EXCEPT ![shortcutId].webhook_id = newWebhookId,
                                          ![shortcutId].webhook_secret = Some(newWebhookSecret)],
          webhook_rotations |-> Append(webhook_rotations,
                [shortcut_id |-> shortcutId,
                 old_webhook_id |-> shortcuts[shortcutId].webhook_id,
                 new_webhook_id |-> newWebhookId, rotated_by |-> userId,
                 reason |-> reason])]

\* ------------------------------------------------------------------ AuthService
\* constructor(db) { this.db = new DatabaseService(db) }: the methods of the
\* class DatabaseService of services/database.js, the only ones this.db has.
DatabaseServiceMethods ==
    {"createDevice", "getDevice", "updateDevice", "deactivateDevice", "createShortcut",
     "createShortcutsBatch", "getShortcutByWebhook", "getDeviceShortcuts", "updateShortcut",
     "deactivateShortcut", "removeDeviceShortcuts", "logWebhookExecution",
     "getWebhookExecutions", "checkRateLimit", "updateAnalytics", "getAnalytics",
     "getCachedToken", "setCachedToken", "validateApiKey", "updateApiKeyLastUsed",
     "cleanupOldRateLimits", "cleanupOldExecutions"}

\* calling this.db.<method>(...) throws a TypeError when the method does not exist
AuthDbHas(method) == method \in DatabaseServiceMethods

\* validateSession / validateAPIKey: whether the call threw, and the resolved user
validateSession(cred) ==
    IF ~AuthDbHas("getSessionByTokenHash") THEN [threw |-> TRUE, user |-> Null]
    ELSE IF cred = "session_expired" /\ ~AuthDbHas("deactivateSession")
         THEN [threw |-> TRUE, user |-> Null]
    ELSE IF ~AuthDbHas("getUserById") THEN [threw |-> TRUE, user |-> Null]
    ELSE [threw |-> FALSE, user |-> IF cred = "session_valid" THEN Some("u1") ELSE Null]

validateAPIKey(cred) ==
    IF ~AuthDbHas("getUserAPIKeyByHash") THEN [threw |-> TRUE, user |-> Null]
    ELSE IF cred = "apikey_invalid" THEN [threw |-> FALSE, user |-> Null]
    ELSE IF ~AuthDbHas("getUserById") THEN [threw |-> TRUE, user |-> Null]
    ELSE [threw |-> FALSE, user |-> Some("u1")]

\* what a call of the AuthService that stops at a missing store method leaves
Thrown(sess, keys) ==
    [outcome |-> "throw", user |-> Null, sessions |-> sess, api_keys |-> keys]

\* AuthService.validateSession(sessionToken) at time t, against the stored rows:
\* what it returns ("user", "null", or "throw" for an exception) and the
\* sessions table it leaves
AuthValidateSession(sessionToken, t) ==
    LET found == getSessionByTokenHash(sessions, sha256(sessionToken))
        id == CHOOSE s \in found : TRUE
        absent == [outcome |-> "null", user |-> Null, sessions |-> sessions,
                   api_keys |-> api_keys]
    IN  IF ~AuthDbHas("getSessionByTokenHash") THEN Thrown(sessions, api_keys)
        ELSE IF found = {} THEN absent
        ELSE IF sessions[id].expires_at < t
             THEN IF ~AuthDbHas("deactivateSession") THEN Thrown(sessions, api_keys)
                  ELSE [absent EXCEPT !.sessions = deactivateSession(sessions, id)]
        ELSE IF ~AuthDbHas("getUserById") THEN Thrown(sessions, api_keys)
        ELSE IF ~users.is_active THEN absent
        ELSE [absent EXCEPT !.outcome = "user", !.user = Some(sessions[id].user_id)]

\* AuthService.validateAPIKey(apiKey, requiredPermission) at time t;
\* requiredPermission is Null when the caller requires none.  The last step is
\* this.db.updateAPIKeyLastUsed(keyData.id): no address is passed, the store
\* method's ipAddress defaults to null.
AuthValidateAPIKey(apiKey, requiredPermission, t) ==
    LET found == getUserAPIKeyByHash(api_keys, sha256(apiKey))
        id == CHOOSE k \in found : TRUE
        absent == [outcome |-> "null", user |-> Null, sessions |-> sessions,
                   api_keys |-> api_keys]
    IN  IF ~AuthDbHas("getUserAPIKeyByHash") THEN Thrown(sessions, api_keys)
        ELSE IF found = {} THEN absent
        ELSE IF ~IsNull(api_keys[id].expires_at) /\ Val(api_keys[id].expires_at) < t
             THEN IF ~AuthDbHas("deactivateAPIKey") THEN Thrown(sessions, api_keys)
                  ELSE [absent EXCEPT !.api_keys = deactivateAPIKey(api_keys, id)]
        ELSE IF ~AuthDbHas("getUserById") THEN Thrown(sessions, api_keys)
        ELSE IF ~users.is_active THEN absent
        ELSE IF /\ ~IsNull(requiredPermission)
                /\ Val(requiredPermission) \notin api_keys[id].permissions
                /\ "*" \notin api_keys[id].permissions
             THEN absent
        ELSE IF ~AuthDbHas("updateAPIKeyLastUsed") THEN Thrown(sessions, api_keys)
        ELSE [absent EXCEPT !.outcome = "user", !.user = Some(api_keys[id].user_id),
                            !.api_keys = updateAPIKeyLastUsed(api_keys, id, Null, t)]

\* logAudit: await this.db.createAuditLog({...})
logAuditThrows == ~AuthDbHas("createAuditLog")

\* crypto.subtle.deriveBits PBKDF2-SHA256 of the password under the salt, as
\* the hex string of the derived bits
Pbkdf2(password, salt) == <<"pbkdf2-sha256", password, salt>>

\* `pbkdf2:${saltHex}:${hashHex}` as hashPassword('pw1') returns it, split at ':'
GenuineHash == <<"pbkdf2", <<"a", "0">>, Pbkdf2("pw1", <<160>>)>>

\* the users.password_hash values the store can hold, split at ':': a genuine
\* one, and ones cut short or damaged
StoredHashes ==
    { GenuineHash,
      <<"pbkdf2", <<"a", "0">>>>,                          \* no derived-bits field
      <<"pbkdf2">>,                                        \* no salt field
      <<"pbkdf2", <<>>, Pbkdf2("pw1", <<160>>)>>,          \* empty salt
      <<"pbkdf2", <<"a">>, Pbkdf2("pw1", <<160>>)>>,       \* half a byte of salt
      <<"pbkdf2", <<"a", "z">>, Pbkdf2("pw1", <<160>>)>>,  \* salt that is not hex
      <<"bcrypt", <<"a", "0">>, Pbkdf2("pw1", <<160>>)>> } \* another algorithm

Passwords == {"pw1", "pw2"}
Emails == {"u1@example.com", "nobody@example.com"}

\* verifyPassword(password, storedHash): const [algorithm, saltHex, hashHex] =
\* storedHash.split(':'); saltHex.match(/.{2}/g).map(...) throws a TypeError
\* when saltHex is undefined or has no pair of characters
verifyPassword(password, storedHash) ==
    IF storedHash[1] # "pbkdf2" THEN "throw Unsupported hash algorithm"
    ELSE IF Len(storedHash) < 2 THEN "throw TypeError"
    ELSE LET pairs == MatchPairs(storedHash[2])
         IN  IF IsNull(pairs) THEN "throw TypeError"
             ELSE LET salt == [i \in 1..Len(Val(pairs)) |-> ParseByte(Val(pairs)[i])]
                  IN  IF Len(storedHash) >= 3 /\ Pbkdf2(password, salt) = storedHash[3]
                      THEN "true" ELSE "false"

\* AuthService.authenticateUser(email, password) at time t: what it returns or
\* throws, the session token it returns and the sessions table it leaves; the
\* new row goes to the free slot id
authenticateUser(email, password, t, id) ==
    LET failed(outcome) == [outcome |-> outcome, user |-> Null, sessions |-> sessions,
                            api_keys |-> api_keys, returned |-> Null]
        isValid == verifyPassword(password, user_account.password_hash)
        sessionToken == "tok2"
    IN  IF ~AuthDbHas("getUserByEmail") THEN failed("throw TypeError")
        ELSE IF email # "u1@example.com" \/ ~users.is_active
             THEN failed("throw Invalid credentials")
        ELSE IF isValid \notin {"true", "false"} THEN failed(isValid)
        ELSE IF isValid = "false" THEN failed("throw Invalid credentials")
        ELSE IF ~user_account.is_verified THEN failed("throw Email not verified")
        ELSE IF ~AuthDbHas("updateUserLastLogin") \/ ~AuthDbHas("createSession")
             THEN failed("throw TypeError")
        ELSE [outcome |-> "session", user |-> Some("u1"),
              sessions |-> createSession(sessions, id,
                                [user_id |-> "u1", token_hash |-> sha256(sessionToken),
                                 expires_at |-> t + SessionHours * 60 * TicksPerMinute]),
              api_keys |-> api_keys, returned |-> Some(sessionToken)]

\* ------------------------------------------------------------- the middleware
\* The credential material of a request: the x-api-key header, the
\* authorization header (its scheme and what follows 'Bearer '), and the
\* api_key query parameter; Null when absent, "" when present and empty.
AuthRequests ==
    [xApiKey : {Null, Some(""), Some("wc_k1"), Some("wc_k2")},
     authorization : {Null, Some([scheme |-> "Bearer", credential |-> "tok1"]),
                      Some([scheme |-> "Bearer", credential |-> "tok2"]),
                      Some([scheme |-> "Basic", credential |-> "tok1"])},
     queryApiKey : {Null, Some("wc_k1")}]

\* if (apiKey): a header or parameter that is present and not empty
Truthy(h) == ~IsNull(h) /\ Val(h) # ""

\* the same with the bearer token looked at first
getAuthBearerFirst(request) ==
    IF ~IsNull(request.authorization) /\ Val(request.authorization).scheme = "Bearer"
    THEN Some([type |-> "session", credential |-> Val(request.authorization).credential])
    ELSE IF Truthy(request.xApiKey)
    THEN Some([type |-> "api-key", credential |-> Val(request.xApiKey)])
    ELSE IF Truthy(request.queryApiKey)
    THEN Some([type |-> "api-key", credential |-> Val(request.queryApiKey)])
    ELSE Null

\* getAuthFromRequest(request): the x-api-key header, else a Bearer token, else
\* the api_key query parameter, else null
getAuthFromRequest(request) ==
    IF Truthy(request.xApiKey)
    THEN Some([type |-> "api-key", credential |-> Val(request.xApiKey)])
    ELSE IF ~IsNull(request.authorization) /\ Val(request.authorization).scheme = "Bearer"
    THEN Some([type |-> "session", credential |-> Val(request.authorization).credential])
    ELSE IF Truthy(request.queryApiKey)
    THEN Some([type |-> "api-key", credential |-> Val(request.queryApiKey)])
    ELSE Null

\* requireAuth(request, env, requiredPermission): what it answers, the user it
\* resolved, the tables it leaves and the credentials it had validated
requireAuth(request, requiredPermission, t) ==
    LET auth == getAuthFromRequest(request)
        res == IF Val(auth).type = "session"
               THEN AuthValidateSession(Val(auth).credential, t)
               ELSE AuthValidateAPIKey(Val(auth).credential, requiredPermission, t)
    IN  IF IsNull(auth)
        THEN [outcome |-> "401 Authentication required", user |-> Null,
              sessions |-> sessions, api_keys |-> api_keys, validated |-> <<>>]
        ELSE [outcome |-> CASE res.outcome = "throw" -> "500 Authentication failed"
                            [] res.outcome = "user" -> "success"
                            [] Val(auth).type = "session" -> "401 Invalid or expired session"
                            [] OTHER -> "403 Invalid API key",
              user |-> res.user, sessions |-> res.sessions, api_keys |-> res.api_keys,
              validated |-> <<Val(auth)>>]

\* ------------------------------------------------------------ webhook management
\* the body of a rotation request: whether it parses as JSON, and its reason
RotationBodies ==
    {[json |-> FALSE, reason |-> Null], [json |-> TRUE, reason |-> Null],
     [json |-> TRUE, reason |-> Some("compromised")]}

\* handleWebhookRotation(request, env, webhookId) at time t, the n-th generated
\* identifier at hand: the response, the acting user, the tables it leaves and
\* the row whose columns the response body carries
handleWebhookRotation(request, body, webhookId, t, n) ==
    LET respond(authResult) ==
            LET user == Val(authResult.user)
                found == getShortcutByWebhookAndUser(webhookId, user)
                webhook == CHOOSE s \in found : TRUE
                reason == IF IsNull(body.reason) THEN "manual_rotation" ELSE Val(body.reason)
                rotated == rotateWebhookId(webhook, user, GeneratedWebhooks[n].id,
                                           GeneratedWebhooks[n].secret, reason)
                untouched == [shortcuts |-> shortcuts, webhook_rotations |-> webhook_rotations]
                answer(outcome, rot) ==
                    [outcome |-> outcome, user |-> authResult.user,
                     sessions |-> authResult.sessions, api_keys |-> authResult.api_keys,
                     shortcuts |-> rot.shortcuts, webhook_rotations |-> rot.webhook_rotations,
                     audited |-> outcome = "200 Webhook rotated successfully",
                     disclosed |-> IF outcome = "200 Webhook rotated successfully"
                                   THEN Some(rot.shortcuts[webhook]) ELSE Null]
            IN  IF authResult.outcome # "success" THEN answer(authResult.outcome, untouched)
                ELSE IF found = {}
                THEN answer("404 Webhook not found or access denied", untouched)
                ELSE IF ~body.json THEN answer("500 Failed to rotate webhook", untouched)
                ELSE IF IsNull(rotated.result)
                THEN answer("500 Failed to rotate webhook", untouched)
                ELSE IF logAuditThrows THEN answer("500 Failed to rotate webhook", rotated)
                ELSE answer("200 Webhook rotated successfully", rotated)
    IN  respond(requireAuth(request, Some("webhook:manage"), t))

\* the body of an update request: whether it parses as JSON and, for each field
\* the handler accepts, Null when the body lacks it, else the value it gives
UpdateBodies ==
    {[json |-> FALSE, expires_at |-> Null, max_uses |-> Null, allowed_ips |-> Null,
      is_active |-> Null],
     [json |-> TRUE, expires_at |-> Null, max_uses |-> Null, allowed_ips |-> Null,
      is_active |-> Null],
     [json |-> TRUE, expires_at |-> Null, max_uses |-> Some(Some(0)), allowed_ips |-> Null,
      is_active |-> Null],
     [json |-> TRUE, expires_at |-> Some(Some(1)), max_uses |-> Null,
      allowed_ips |-> Some(Some({IpB})), is_active |-> Null],
     [json |-> TRUE, expires_at |-> Null, max_uses |-> Null, allowed_ips |-> Null,
      is_active |-> Some(FALSE)]}

\* handleWebhookUpdate(request, env, webhookId) at time t: the response, the
\* acting user, the tables it leaves and the row the response body carries
handleWebhookUpdate(request, updates, webhookId, t) ==
    LET respond(authResult) ==
            LET user == Val(authResult.user)
                found == getShortcutByWebhookAndUser(webhookId, user)
                updateFields ==
                    {field \in {"expires_at", "max_uses", "allowed_ips", "is_active"} :
                        ~IsNull(updates[field])}
                set(field, old) ==
                    IF field \in updateFields THEN Val(updates[field]) ELSE old
                updated ==
                    [s \in ShortcutIds |->
                        IF shortcuts[s].webhook_id = webhookId /\ OwnerOf(s) = user
                        THEN [shortcuts[s] EXCEPT !.expires_at = set("expires_at", @),
                                                  !.max_uses = set("max_uses", @),
                                                  !.allowed_ips = set("allowed_ips", @),
                                                  !.is_active = set("is_active", @)]
                        ELSE shortcuts[s]]
                updatedWebhook == {s \in found : updated[s].is_active}
                answer(outcome, rows, audited) ==
                    [outcome |-> outcome, user |-> authResult.user,
                     sessions |-> authResult.sessions, api_keys |-> authResult.api_keys,
                     shortcuts |-> rows, audited |-> audited,
                     disclosed |-> IF outcome = "200 Webhook updated successfully"
                                   THEN Some(rows[CHOOSE s \in updatedWebhook : TRUE])
                                   ELSE Null]
            IN  IF authResult.outcome # "success"
                THEN answer(authResult.outcome, shortcuts, FALSE)
                ELSE IF found = {}
                THEN answer("404 Webhook not found or access denied", shortcuts, FALSE)
                ELSE IF ~updates.json
                THEN answer("500 Failed to update webhook", shortcuts, FALSE)
                ELSE IF updateFields = {}
                THEN answer("400 No valid updates provided", shortcuts, FALSE)
                ELSE IF logAuditThrows
                THEN answer("500 Failed to update webhook", updated, FALSE)
                ELSE IF updatedWebhook = {}
                THEN answer("500 Failed to update webhook", updated, TRUE)
                ELSE answer("200 Webhook updated successfully", updated, TRUE)
    IN  respond(requireAuth(request, Some("webhook:manage"), t))

\* handleWebhookStats(request, env, webhookId) at time t: the response, the
\* acting user, the tables it leaves and the row the response body carries
handleWebhookStats(request, webhookId, t) ==
    LET respond(authResult) ==
            LET found == getShortcutByWebhookAndUser(webhookId, Val(authResult.user))
                answer(outcome) ==
                    [outcome |-> outcome, user |-> authResult.user,
                     sessions |-> authResult.sessions, api_keys |-> authResult.api_keys,
                     disclosed |-> IF outcome = "200"
                                   THEN Some(shortcuts[CHOOSE s \in found : TRUE]) ELSE Null]
            IN  IF authResult.outcome # "success" THEN answer(authResult.outcome)
                ELSE IF found = {} THEN answer("404 Webhook not found or access denied")
                ELSE answer("200")
    IN  respond(requireAuth(request, Null, t))

\* ------------------------------------------------------------------ WebhookGate
\* a webhook never expires
NeverExpired(webhook, t) == FALSE

\* if (webhook.expires_at && new Date(webhook.expires_at) < new Date())
IsExpired(webhook, t) ==
    ~IsNull(webhook.expires_at) /\ Val(webhook.expires_at) < t

\* no usage check at all
UsageUnlimited(webhook) == FALSE

\* if (webhook.max_uses && webhook.trigger_count >= webhook.max_uses)
UsageExceeded(webhook) ==
    /\ ~IsNull(webhook.max_uses)
    /\ Val(webhook.max_uses) # 0
    /\ webhook.trigger_count >= Val(webhook.max_uses)

\* request.headers.get('cf-connecting-ip') || get('x-forwarded-for') || get('x-real-ip')
GateClientIp(headers) ==
    IF headers.cf # <<>> THEN headers.cf
    ELSE IF headers.xff # <<>> THEN headers.xff
    ELSE headers.xri

\* getClientIp(request): get('cf-connecting-ip') || get('x-forwarded-for')?.split(',')[0]
\*   || get('x-real-ip') || 'unknown'
getClientIp(headers) ==
    IF headers.cf # <<>> THEN headers.cf
    ELSE IF headers.xff # <<>> THEN <<Head(headers.xff)>>
    ELSE IF headers.xri # <<>> THEN headers.xri
    ELSE <<"unknown">>

\* if (webhook.allowed_ips) { ... allowedIps.length > 0 && !allowedIps.includes(clientIp) }
IpDenied(webhook, headers) ==
    /\ ~IsNull(webhook.allowed_ips)
    /\ Val(webhook.allowed_ips) # {}
    /\ ~(\E ip \in Val(webhook.allowed_ips) : <<ip>> = GateClientIp(headers))

\* the optional authentication without its try / catch
ResolveUserUncaught(cred) ==
    CASE cred = "none" -> [threw |-> FALSE, user |-> Null]
      [] cred \in {"apikey_valid", "apikey_invalid"} -> validateAPIKey(cred)
      [] OTHER -> validateSession(cred)

\* getAuthFromRequest + the optional authentication of validateWebhookAccess:
\* an exception of the AuthService is caught and leaves user = null
ResolveUser(cred) ==
    LET res == CASE cred = "none" -> [threw |-> FALSE, user |-> Null]
                 [] cred \in {"apikey_valid", "apikey_invalid"} -> validateAPIKey(cred)
                 [] OTHER -> validateSession(cred)
    IN  IF res.threw THEN [threw |-> FALSE, user |-> Null] ELSE res

GateRejections ==
    {"not_found", "expired", "usage_exceeded", "ip_denied",
     "signature_required", "signature_invalid"}

\* the gate with the usage check ahead of the expiry check
validateUsageFirst(q, t) ==
    LET found == getShortcutByWebhook(q.webhookId)
        webhook == Val(found)
        secret == webhook.webhook_secret
        rejected(reason) == [outcome |-> reason, user |-> Null, resolved |-> FALSE]
    IN  IF IsNull(found) THEN rejected("not_found")
        ELSE IF UsageExceeded(webhook) THEN rejected("usage_exceeded")
        ELSE IF IsExpired(webhook, t) THEN rejected("expired")
        ELSE IF IpDenied(webhook, q.headers) THEN rejected("ip_denied")
        ELSE IF ~IsNull(secret) /\ q.signature = <<>>
             THEN rejected("signature_required")
        ELSE IF ~IsNull(secret) /\ verifyHMAC(q.body, q.signature, Val(secret)) = "throw"
             THEN rejected("throw")
        ELSE IF ~IsNull(secret) /\ verifyHMAC(q.body, q.signature, Val(secret)) = "false"
             THEN rejected("signature_invalid")
        ELSE IF ResolveUser(q.cred).threw
             THEN [outcome |-> "throw", user |-> Null, resolved |-> q.cred # "none"]
        ELSE [outcome |-> "accepted", user |-> ResolveUser(q.cred).user,
              resolved |-> q.cred # "none"]

\* validateWebhookAccess(request, env, webhookId) at time t: the outcome, the
\* user, and whether the AuthService was called
validateWebhookAccess(q, t) ==
    LET found == getShortcutByWebhook(q.webhookId)
        webhook == Val(found)
        secret == webhook.webhook_secret
        rejected(reason) == [outcome |-> reason, user |-> Null, resolved |-> FALSE]
    IN  IF IsNull(found) THEN rejected("not_found")
        ELSE IF IsExpired(webhook, t) THEN rejected("expired")
        ELSE IF UsageExceeded(webhook) THEN rejected("usage_exceeded")
        ELSE IF IpDenied(webhook, q.headers) THEN rejected("ip_denied")
        ELSE IF ~IsNull(secret) /\ q.signature = <<>>
             THEN rejected("signature_required")
        ELSE IF ~IsNull(secret) /\ verifyHMAC(q.body, q.signature, Val(secret)) = "throw"
             THEN rejected("throw")
        ELSE IF ~IsNull(secret) /\ verifyHMAC(q.body, q.signature, Val(secret)) = "false"
             THEN rejected("signature_invalid")
        ELSE IF ResolveUser(q.cred).threw
             THEN [outcome |-> "throw", user |-> Null, resolved |-> q.cred # "none"]
        ELSE [outcome |-> "accepted", user |-> ResolveUser(q.cred).user,
              resolved |-> q.cred # "none"]

\* the response of a gate rejection
GateResponse(outcome) ==
    CASE outcome = "not_found"          -> "404 Webhook not found"
      [] outcome = "expired"            -> "410 Webhook has expired"
      [] outcome = "usage_exceeded"     -> "429 Webhook usage limit exceeded"
      [] outcome = "ip_denied"          -> "403 Access denied from this IP address"
      [] outcome = "signature_required" -> "401 Webhook signature required"
      [] outcome = "signature_invalid"  -> "401 Invalid webhook signature"

\* ------------------------------------------------------------ TriggerOrchestrator
\* no payload is too large
PayloadNeverTooLarge(size) == FALSE

\* if (payloadSize > 4096) return 413
PayloadTooLarge(size) == size > MaxPayloadSize

\* user ? `user:${user.id}:webhook` : `webhook:${webhookId}`
RateLimitIdentifier(user, webhookId) ==
    IF IsNull(user) THEN <<"webhook", webhookId>> ELSE <<"user", Val(user)>>

\* the user a rate-limit key was built for (user?.id || null)
UserOf(identifier) ==
    IF identifier # <<>> /\ identifier[1] = "user" THEN Some(identifier[2]) ELSE Null

\* user ? (env.USER_RATE_LIMIT_PER_MINUTE || 30) : (env.RATE_LIMIT_PER_MINUTE || 10)
RateLimitMax(user) ==
    IF IsNull(user) THEN RateLimitPerMinute ELSE UserRateLimitPerMinute

\* the Retry-After header of a response: '60' on the rate limiter's 429, absent
\* on every other response
RetryAfter(response) ==
    IF response = "429 Rate limit exceeded" THEN Some(60) ELSE Null

\* every status is 'success'
StatusAlwaysSuccess(success) == "success"

\* status: notificationResult.success ? 'success' : 'failed'
ExecutionStatus(success) == IF success THEN "success" ELSE "failed"

Identifiers == {<<"webhook", w>> : w \in WebhookIds} \cup {<<"user", "u1">>}
Windows == {WindowStart(t, WindowMinutes) : t \in 0..MaxTime}

InFlight(p) == {r \in Reqs : p[r] \notin {"idle", "done"}}
ChecksInFlight(p, l, i) ==
    {r \in Reqs : p[r] \in {"rl_read", "rl_write"} /\ l[r].identifier = i}

\* what a run that records its requests keeps of request q received at time t:
\* the request, whether the gate called the AuthService, and clientIp (the
\* ip_address of the request's audit rows)
NoObservation == [request |-> Null, resolved |-> FALSE, clientIp |-> Null]

NoRl == [identifier |-> <<>>, window |-> 0, max |-> 0, read |-> 0, k |-> 0,
         state |-> "none", remaining |-> 0]

\* -------------------------------------------------------------------- Init
\* the other tables are empty and no request has arrived
InitRest ==
    /\ devices \in [is_active : BOOLEAN, token_ok : BOOLEAN]
    /\ users \in [is_active : BOOLEAN]
    /\ rate_limits = [k \in Identifiers \X Windows |-> 0]
    /\ webhook_executions = <<>>
    /\ analytics = [w \in WebhookIds |-> Null]
    /\ audit_log = <<>>
    /\ now = 0
    /\ pc = [r \in Reqs |-> "idle"]
    /\ reqWebhookId = [r \in Reqs |-> "unknown"]
    /\ payloadSize = [r \in Reqs |-> 0]
    /\ gate = [r \in Reqs |-> "none"]
    /\ rl = [r \in Reqs |-> NoRl]
    /\ notif = [r \in Reqs |-> "none"]
    /\ resp = [r \in Reqs |-> "none"]
    /\ dispatchCount = [r \in Reqs |-> 0]
    /\ started = 0
    /\ peak = 0
    /\ rlPeak = [i \in Identifiers |-> 0]
    /\ observed = [r \in Reqs |-> NoObservation]

\* the tables of schema.sql without rows
EmptyStore ==
    [devices |-> {}, shortcuts |-> {}, rate_limits |-> <<>>, webhook_executions |-> <<>>,
     analytics |-> <<>>]

\* no account or management operation has been called
NoCall == [n |-> 0, op |-> "none", input |-> Null, outcome |-> "none", user |-> Null,
           at |-> 0, detail |-> Null]

\* the account tables of a user who logged in and created a key before the run
NoAccounts ==
    /\ sessions = [s \in SessionIds |->
            IF s # "sess1" THEN NoSession
            ELSE [token_hash |-> sha256("tok1"), user_id |-> "u1",
                  expires_at |-> MaxTime + 1, is_active |-> TRUE]]
    /\ api_keys = [k \in KeyIds |->
            IF k # "key1" THEN NoApiKey
            ELSE [key_hash |-> sha256("wc_k1"), key_prefix |-> <<"prefix", "wc_k1">>,
                  user_id |-> "u1", permissions |-> {"webhook:trigger", "webhook:read"},
                  expires_at |-> Null, is_active |-> TRUE,
                  last_used |-> Null, last_used_ip |-> Null]]
    /\ webhook_rotations = <<>>
    /\ user_account = [password_hash |-> GenuineHash, is_verified |-> TRUE]
    /\ console = {}
    /\ call = NoCall
    /\ v1 = EmptyStore
    /\ env = [WEBHOOK_SECRET |-> Null]
    /\ dbInitialized = TRUE /\ tablesCreated = TRUE

\* the shortcuts rows of every policy, triggered at most n times so far
ShortcutRows(n) ==
    {row \in [webhook_id : WebhookIds, is_active : {TRUE},
              expires_at : {Null, Some(1)},
              max_uses : {Null} \cup {Some(m) : m \in 0..MaxUsesBound},
              allowed_ips : {Null, Some({IpA})},
              webhook_secret : {Null, Some("whsec")},
              trigger_count : 0..n, last_triggered : {Null, Some(0)}] :
        row.trigger_count = 0 <=> IsNull(row.last_triggered)}

InitState ==
    /\ shortcuts \in [ShortcutIds -> ShortcutRows(0)]
    /\ InitRest
    /\ NoAccounts

Init == InitState /\ incoming = MaxRequests

\* ----------------------------------------------------------------- actions
\* A step of a request runs from one await on the store that other requests can
\* observe to the next; the audit row and the response that follows it are
\* written in the step that decides them.

\* What validateWebhookAccess and the payload parsing make of request q at time t:
\* all the handler keeps of the request.
Arrival(q, t) ==
    LET access == validateWebhookAccess(q, t)
    IN  [webhookId |-> q.webhookId, outcome |-> access.outcome, user |-> access.user,
         payloadSize |-> IF access.outcome = "accepted" THEN q.payloadSize ELSE 0]

Observation(q, t) ==
    [request |-> Some(q), resolved |-> validateWebhookAccess(q, t).resolved,
     clientIp |-> Some(getClientIp(q.headers))]

\* catch (error) { try { await db.createAuditLog({ action: 'webhook_trigger_error' }) }
\*                 catch (logError) {}  return 500 'Internal server error' }
CatchError(r, webhookId, clientIp) ==
    /\ audit_log' = createAuditLog(audit_log, r, Null, "webhook_trigger_error",
                                   "webhook", webhookId, clientIp)
    /\ resp' = [resp EXCEPT ![r] = "500 Internal server error"]
    /\ pc' = [pc EXCEPT ![r] = "done"]

\* handleWebhookRequestV2, up to the rate-limit check: validateWebhookAccess, the
\* audit row and the response of a rejection, the payload size check and the
\* choice of the rate-limit key.
Receive(r, a, o) ==
    /\ started' = r
    /\ observed' = [observed EXCEPT ![r] = o]
    /\ incoming' = incoming - 1
    /\ reqWebhookId' = [reqWebhookId EXCEPT ![r] = a.webhookId]
    /\ gate' = [gate EXCEPT ![r] = a.outcome]
    /\ payloadSize' = [payloadSize EXCEPT ![r] = a.payloadSize]
    /\ CASE a.outcome = "throw" ->
                /\ CatchError(r, a.webhookId, o.clientIp)
                /\ UNCHANGED rl
         [] a.outcome \in GateRejections ->
                /\ audit_log' = createAuditLog(audit_log, r, Null,
                                    "webhook_trigger_unauthorized", "webhook", a.webhookId,
                                    o.clientIp)
                /\ resp' = [resp EXCEPT ![r] = GateResponse(a.outcome)]
                /\ pc' = [pc EXCEPT ![r] = "done"]
                /\ UNCHANGED rl
         [] a.outcome = "accepted" /\ PayloadTooLarge(a.payloadSize) ->
                /\ resp' = [resp EXCEPT ![r] = "413 Payload too large"]
                /\ pc' = [pc EXCEPT ![r] = "done"]
                /\ UNCHANGED <<audit_log, rl>>
         [] OTHER ->
                /\ rl' = [rl EXCEPT ![r] =
                        [NoRl EXCEPT !.identifier = RateLimitIdentifier(a.user, a.webhookId),
                                     !.max = RateLimitMax(a.user)]]
                /\ pc' = [pc EXCEPT ![r] = "rl_read"]
                /\ UNCHANGED <<audit_log, resp>>
    /\ peak' = Max(peak, Cardinality(InFlight(pc) \cup {r}))
    /\ rlPeak' = [i \in Identifiers |->
                    Max(rlPeak[i], Cardinality(ChecksInFlight(pc', rl', i)))]
    /\ UNCHANGED <<shortcuts, devices, users, rate_limits, webhook_executions, analytics,
                   now, notif, dispatchCount, acctVars>>

Trigger(r) ==
    /\ pc[r] = "idle"
    /\ r = started + 1
    /\ incoming > 0
    /\ \E a \in {Arrival(q, now) : q \in Requests} : Receive(r, a, NoObservation)

\* the same, in a run that records the requests it receives, drawn from Q
TriggerObserved(r, Q) ==
    /\ pc[r] = "idle"
    /\ r = started + 1
    /\ incoming > 0
    /\ \E q \in Q : Receive(r, Arrival(q, now), Observation(q, now))

\* checkRateLimit, the SELECT: compute the window, read the row, decide; and
\* if (!rateLimitResult.allowed) { await db.createAuditLog({...}); return 429 }
RateLimitRead(r) ==
    LET w == WindowStart(now, WindowMinutes)
        count == rate_limits[<<rl[r].identifier, w>>]
        k == 1 + Cardinality({o \in Reqs : /\ rl[o].state # "none"
                                           /\ rl[o].identifier = rl[r].identifier
                                           /\ rl[o].window = w})
        denied == count # 0 /\ RateLimitExceeded(count, rl[r].max)
    IN  /\ pc[r] = "rl_read"
        /\ rl' = [rl EXCEPT ![r] =
                [@ EXCEPT !.window = w, !.read = count, !.k = k,
                          !.state = IF denied THEN "denied" ELSE "reading"]]
        /\ IF ~denied
           THEN /\ pc' = [pc EXCEPT ![r] = "rl_write"]
                /\ UNCHANGED <<audit_log, resp>>
           ELSE /\ audit_log' = createAuditLog(audit_log, r, UserOf(rl[r].identifier),
                                    "webhook_trigger_rate_limited", "webhook", reqWebhookId[r],
                                    observed[r].clientIp)
                /\ resp' = [resp EXCEPT ![r] = "429 Rate limit exceeded"]
                /\ pc' = [pc EXCEPT ![r] = "done"]
        /\ UNCHANGED <<shortcuts, devices, users, rate_limits, webhook_executions, analytics,
                       now, reqWebhookId, payloadSize, gate, notif, dispatchCount,
                       started, incoming, peak, rlPeak, observed,
                       acctVars>>

\* an UPDATE that stores the count the SELECT read, plus one
RequestCountFromRead(stored, read) == read + 1

\* UPDATE rate_limits SET request_count = request_count + 1: the increment is
\* applied to the stored count, whatever the SELECT of this call had read
RequestCountAfterUpdate(stored, read) == stored + 1

\* checkRateLimit, the write: INSERT ... VALUES (?, ?, ?, 1) when no row was read
\* (UNIQUE(identifier, window_start) makes it fail when a row exists by now), else
\* UPDATE ... SET request_count = request_count + 1
RateLimitWrite(r) ==
    LET key == <<rl[r].identifier, rl[r].window>>
        insert == rl[r].read = 0
        conflict == insert /\ rate_limits[key] # 0
    IN  /\ pc[r] = "rl_write"
        /\ rate_limits' =
                IF conflict THEN rate_limits
                ELSE IF insert THEN [rate_limits EXCEPT ![key] = 1]
                ELSE [rate_limits EXCEPT ![key] = RequestCountAfterUpdate(@, rl[r].read)]
        /\ rl' = [rl EXCEPT ![r] =
                IF conflict THEN [@ EXCEPT !.state = "error"]
                ELSE [@ EXCEPT !.state = "allowed",
                               !.remaining = IF insert
                                             THEN RemainingAfterInsert(rl[r].max)
                                             ELSE RemainingAfterUpdate(rl[r].read, rl[r].max)]]
        /\ IF conflict
           THEN CatchError(r, reqWebhookId[r], observed[r].clientIp)
           ELSE /\ pc' = [pc EXCEPT ![r] = "dispatch"]
                /\ UNCHANGED <<audit_log, resp>>
        /\ UNCHANGED <<shortcuts, devices, users, webhook_executions, analytics,
                       now, reqWebhookId, payloadSize, gate, notif, dispatchCount,
                       started, incoming, peak, rlPeak, observed,
                       acctVars>>

\* const deviceToken = await decryptData(...); const notificationResult =
\* await sendPushNotification({...}): the push service answers either way,
\* sendPushNotification catches every error and returns { success: false }.
DecryptAndDispatch(r, success) ==
    /\ pc[r] = "dispatch"
    /\ IF decryptData(devices) = "throw"
       THEN /\ success
            /\ CatchError(r, reqWebhookId[r], observed[r].clientIp)
            /\ UNCHANGED <<notif, dispatchCount>>
       ELSE /\ notif' = [notif EXCEPT ![r] = IF success THEN "sent" ELSE "not_sent"]
            /\ dispatchCount' = [dispatchCount EXCEPT ![r] = @ + 1]
            /\ pc' = [pc EXCEPT ![r] = "log_execution"]
            /\ UNCHANGED <<audit_log, resp>>
    /\ UNCHANGED <<shortcuts, devices, users, rate_limits, webhook_executions, analytics,
                   now, reqWebhookId, payloadSize, gate, rl, started, incoming, peak, rlPeak, observed,
                   acctVars>>

\* await db.logWebhookExecution({ webhook_id: webhookId, ..., status }) and the
\* AFTER INSERT trigger of the schema, in the same statement
LogExecution(r) ==
    LET new == [req |-> r, webhook_id |-> reqWebhookId[r],
                status |-> ExecutionStatus(notif[r] = "sent"), executed_at |-> now]
    IN  /\ pc[r] = "log_execution"
        /\ webhook_executions' = Append(webhook_executions, new)
        /\ shortcuts' = update_shortcut_trigger_count(shortcuts, new)
        /\ pc' = [pc EXCEPT ![r] = "update_analytics"]
        /\ UNCHANGED <<devices, users, rate_limits, analytics, audit_log, now,
                       reqWebhookId, payloadSize, gate, rl, notif, resp, dispatchCount,
                       started, incoming, peak, rlPeak, observed,
                       acctVars>>

\* await db.updateAnalytics(webhookId, notificationResult.success, responseTime),
\* the SELECT: const existing = ... WHERE webhook_id = ? AND date = ?
UpdateAnalyticsRead(r) ==
    /\ pc[r] = "update_analytics"
    /\ pc' = [pc EXCEPT ![r] = IF IsNull(analytics[reqWebhookId[r]])
                                THEN "insert_analytics" ELSE "increment_analytics"]
    /\ UNCHANGED <<storeVars, now, reqWebhookId, payloadSize, gate, rl, notif, resp,
                   dispatchCount, started, incoming, peak, rlPeak, observed,
                   acctVars>>

\* updateAnalytics, the write: UPDATE ... SET trigger_count = trigger_count + 1 when
\* a row was read, else INSERT (UNIQUE(webhook_id, date) makes it fail when a row
\* exists by now);
\* await authService.logAudit(webhook.user_id, 'webhook_trigger', 'webhook', ...)
\* and the response that follows it
UpdateAnalyticsAndAudit(r) ==
    /\ pc[r] \in {"insert_analytics", "increment_analytics"}
    /\ analytics' =
            IF pc[r] = "insert_analytics" /\ ~IsNull(analytics[reqWebhookId[r]])
            THEN analytics
            ELSE updateAnalytics(analytics, reqWebhookId[r], notif[r] = "sent")
    /\ IF logAuditThrows \/ (pc[r] = "insert_analytics" /\ ~IsNull(analytics[reqWebhookId[r]]))
       THEN CatchError(r, reqWebhookId[r], observed[r].clientIp)
       ELSE /\ audit_log' = createAuditLog(audit_log, r, Some("u1"), "webhook_trigger",
                                           "webhook", reqWebhookId[r], observed[r].clientIp)
            /\ resp' = [resp EXCEPT ![r] =
                    IF notif[r] = "sent" THEN "200 Shortcut triggered successfully"
                    ELSE "500 Failed to send notification"]
            /\ pc' = [pc EXCEPT ![r] = "done"]
    /\ UNCHANGED <<shortcuts, devices, users, rate_limits, webhook_executions,
                   now, reqWebhookId, payloadSize, gate, rl, notif, dispatchCount,
                   started, incoming, peak, rlPeak, observed,
                   acctVars>>

\* the clock advances
Tick ==
    /\ now < MaxTime
    /\ now' = now + 1
    /\ UNCHANGED <<storeVars, pc, reqWebhookId, payloadSize, gate, rl, notif, resp,
                   dispatchCount, started, incoming, peak, rlPeak, observed,
                   acctVars>>

\* UPDATE shortcuts SET is_active = 0 WHERE webhook_id = ?
deactivateShortcut(webhookId) ==
    /\ \E s \in ShortcutIds : shortcuts[s].webhook_id = webhookId /\ shortcuts[s].is_active
    /\ shortcuts' = [s \in ShortcutIds |->
            IF shortcuts[s].webhook_id = webhookId
            THEN [shortcuts[s] EXCEPT !.is_active = FALSE] ELSE shortcuts[s]]
    /\ UNCHANGED <<devices, users, rate_limits, webhook_executions, analytics, audit_log,
                   now, pc, reqWebhookId, payloadSize, gate, rl, notif, resp,
                   dispatchCount, started, incoming, peak, rlPeak, observed,
                   acctVars>>

Next ==
    \/ \E r \in Reqs : Trigger(r)
    \/ \E r \in Reqs : RateLimitRead(r)
    \/ \E r \in Reqs : RateLimitWrite(r)
    \/ \E r \in Reqs, success \in BOOLEAN : DecryptAndDispatch(r, success)
    \/ \E r \in Reqs : LogExecution(r)
    \/ \E r \in Reqs : UpdateAnalyticsRead(r)
    \/ \E r \in Reqs : UpdateAnalyticsAndAudit(r)
    \/ Tick
    \/ \E w \in WebhookIds : deactivateShortcut(w)

Spec == Init /\ [][Next]_vars

\* The rate limiter on its own: MaxChecks callers of
\* db.checkRateLimit(identifier, 1, maxRequests), as the handler calls it.
CheckRateLimit(r, identifier) ==
    /\ pc[r] = "idle"
    /\ r = started + 1
    /\ incoming > 0
    /\ started' = r
    /\ incoming' = incoming - 1
    /\ rl' = [rl EXCEPT ![r] = [NoRl EXCEPT !.identifier = identifier,
                                           !.max = RateLimitMax(UserOf(identifier))]]
    /\ pc' = [pc EXCEPT ![r] = "rl_read"]
    /\ peak' = Max(peak, Cardinality(InFlight(pc) \cup {r}))
    /\ rlPeak' = [i \in Identifiers |->
                    Max(rlPeak[i], Cardinality(ChecksInFlight(pc', rl', i)))]
    /\ UNCHANGED <<storeVars, now, reqWebhookId, payloadSize, gate, notif, resp,
                   dispatchCount, observed,
                   acctVars>>

InitRL ==
    /\ InitState
    /\ \A s \in ShortcutIds :
            /\ IsNull(shortcuts[s].expires_at) /\ IsNull(shortcuts[s].max_uses)
            /\ IsNull(shortcuts[s].allowed_ips) /\ IsNull(shortcuts[s].webhook_secret)
    /\ devices.is_active /\ devices.token_ok
    /\ users.is_active
    /\ incoming = MaxChecks

NextRL ==
    \/ \E r \in Reqs, i \in Identifiers : CheckRateLimit(r, i)
    \/ \E r \in Reqs : RateLimitRead(r)
    \/ \E r \in Reqs : RateLimitWrite(r)
    \/ Tick

SpecRL == InitRL /\ [][NextRL]_vars

\* The gate under observation: MaxObserved requests, each recorded as it was
\* sent, to a webhook of any policy, triggered up to MaxUsesBound times before
\* the run, whose device and user are active.
InitGate ==
    /\ shortcuts \in [ShortcutIds -> ShortcutRows(MaxUsesBound)]
    /\ InitRest
    /\ NoAccounts
    /\ devices.is_active /\ devices.token_ok
    /\ users.is_active
    /\ incoming = MaxObserved

NextGate ==
    \/ \E r \in Reqs : TriggerObserved(r, Requests)
    \/ \E r \in Reqs : RateLimitRead(r)
    \/ \E r \in Reqs : RateLimitWrite(r)
    \/ \E r \in Reqs, success \in BOOLEAN : DecryptAndDispatch(r, success)
    \/ \E r \in Reqs : LogExecution(r)
    \/ \E r \in Reqs : UpdateAnalyticsRead(r)
    \/ \E r \in Reqs : UpdateAnalyticsAndAudit(r)
    \/ Tick

SpecGate == InitGate /\ [][NextGate]_vars

\* Callers of the two classes: MaxCallers requests, each recorded, that differ
\* only in the credential they present, to a webhook without policy.
CallerRequests ==
    {q \in Requests : /\ q.webhookId \in WebhookIds
                      /\ q.headers = [cf |-> <<IpA>>, xff |-> <<>>, xri |-> <<>>]
                      /\ q.signature = <<>>
                      /\ q.body = "b1"
                      /\ q.payloadSize = MaxPayloadSize}

InitCallers ==
    /\ InitState
    /\ \A s \in ShortcutIds :
            /\ IsNull(shortcuts[s].expires_at) /\ IsNull(shortcuts[s].max_uses)
            /\ IsNull(shortcuts[s].allowed_ips) /\ IsNull(shortcuts[s].webhook_secret)
    /\ devices.is_active /\ devices.token_ok
    /\ users.is_active
    /\ incoming = MaxCallers

NextCallers ==
    \/ \E r \in Reqs : TriggerObserved(r, CallerRequests)
    \/ \E r \in Reqs : RateLimitRead(r)
    \/ \E r \in Reqs : RateLimitWrite(r)
    \/ \E r \in Reqs, success \in BOOLEAN : DecryptAndDispatch(r, success)
    \/ \E r \in Reqs : LogExecution(r)
    \/ \E r \in Reqs : UpdateAnalyticsRead(r)
    \/ \E r \in Reqs : UpdateAnalyticsAndAudit(r)
    \/ Tick

SpecCallers == InitCallers /\ [][NextCallers]_vars

\* The AuthService on its own: MaxCalls calls of its methods, as requireAuth and
\* validateWebhookAccess make them, against the rows of one user.
Called(op, input, res, detail) ==
    [n |-> call.n + 1, op |-> op, input |-> input, outcome |-> res.outcome,
     user |-> res.user, at |-> now, detail |-> detail]

\* await authService.validateSession(auth.credential)
ValidateSession(sessionToken) ==
    LET res == AuthValidateSession(sessionToken, now)
    IN  /\ call.n < MaxCalls
        /\ sessions' = res.sessions
        /\ api_keys' = res.api_keys
        /\ call' = Called("validateSession", [sessionToken |-> sessionToken], res, Null)
        /\ UNCHANGED <<storeVars, now, handlerVars, webhook_rotations, user_account, console, v1Vars>>

\* await authService.validateAPIKey(auth.credential, requiredPermission), for a
\* request that came from clientIp
ValidateAPIKey(apiKey, requiredPermission, clientIp) ==
    LET res == AuthValidateAPIKey(apiKey, requiredPermission, now)
    IN  /\ call.n < MaxCalls
        /\ sessions' = res.sessions
        /\ api_keys' = res.api_keys
        /\ call' = Called("validateAPIKey",
                          [apiKey |-> apiKey, requiredPermission |-> requiredPermission,
                           clientIp |-> clientIp], res, Null)
        /\ UNCHANGED <<storeVars, now, handlerVars, webhook_rotations, user_account, console, v1Vars>>

\* const authResult = await requireAuth(request, env, requiredPermission), the
\* first statement of every management and registration handler
RequireAuth(request, requiredPermission) ==
    LET res == requireAuth(request, requiredPermission, now)
    IN  /\ call.n < MaxCalls
        /\ sessions' = res.sessions
        /\ api_keys' = res.api_keys
        /\ call' = Called("requireAuth",
                          [request |-> request, requiredPermission |-> requiredPermission],
                          res, res.validated)
        /\ UNCHANGED <<storeVars, now, handlerVars, webhook_rotations, user_account, console, v1Vars>>

InitAuth ==
    /\ shortcuts \in [ShortcutIds -> {row \in ShortcutRows(0) :
            /\ IsNull(row.expires_at) /\ IsNull(row.max_uses)
            /\ IsNull(row.allowed_ips) /\ IsNull(row.webhook_secret)}]
    /\ InitRest
    /\ devices.is_active /\ devices.token_ok
    /\ incoming = 0
    /\ \E row \in SessionRows :
            sessions = [s \in SessionIds |-> IF s = "sess1" THEN row ELSE NoSession]
    /\ \E row \in ApiKeyRows :
            api_keys = [k \in KeyIds |-> IF k = "key1" THEN row ELSE NoApiKey]
    /\ webhook_rotations = <<>>
    /\ user_account = [password_hash |-> GenuineHash, is_verified |-> TRUE]
    /\ console = {}
    /\ call = NoCall
    /\ v1 = EmptyStore
    /\ env = [WEBHOOK_SECRET |-> Null]
    /\ dbInitialized = TRUE /\ tablesCreated = TRUE

NextAuth ==
    \/ \E sessionToken \in SessionTokens : ValidateSession(sessionToken)
    \/ \E apiKey \in ApiKeys, requiredPermission \in {Null, Some("webhook:trigger")},
          clientIp \in {IpA, IpB} : ValidateAPIKey(apiKey, requiredPermission, clientIp)
    \/ \E request \in AuthRequests, requiredPermission \in {Null, Some("webhook:trigger")} :
            RequireAuth(request, requiredPermission)
    \/ Tick

SpecAuth == InitAuth /\ [][NextAuth]_vars

\* Logins: MaxCalls calls of authenticateUser and verifyPassword against the
\* stored hash of one user, whatever it holds.
Login(email, password) ==
    \E id \in SessionIds :
        /\ sessions[id] = NoSession
        /\ LET res == authenticateUser(email, password, now, id)
           IN  /\ call.n < MaxCalls
               /\ sessions' = res.sessions
               /\ call' = Called("authenticateUser", [email |-> email, password |-> password],
                                 res, res.returned)
        /\ UNCHANGED <<storeVars, now, handlerVars, api_keys, webhook_rotations,
                       user_account, console, v1Vars>>

\* const isValid = await this.verifyPassword(password, user.password_hash)
VerifyPassword(password) ==
    /\ call.n < MaxCalls
    /\ call' = Called("verifyPassword", [password |-> password],
                      [outcome |-> verifyPassword(password, user_account.password_hash),
                       user |-> Null], Null)
    /\ UNCHANGED <<storeVars, now, handlerVars, sessions, api_keys, webhook_rotations,
                   user_account, console, v1Vars>>

InitLogin ==
    /\ shortcuts \in [ShortcutIds -> {row \in ShortcutRows(0) :
            /\ IsNull(row.expires_at) /\ IsNull(row.max_uses)
            /\ IsNull(row.allowed_ips) /\ IsNull(row.webhook_secret)}]
    /\ InitRest
    /\ devices.is_active /\ devices.token_ok
    /\ incoming = 0
    /\ \E row \in SessionRows :
            sessions = [s \in SessionIds |-> IF s = "sess1" THEN row ELSE NoSession]
    /\ api_keys = [k \in KeyIds |-> NoApiKey]
    /\ webhook_rotations = <<>>
    /\ user_account \in [password_hash : StoredHashes, is_verified : BOOLEAN]
    /\ console = {}
    /\ call = NoCall
    /\ v1 = EmptyStore
    /\ env = [WEBHOOK_SECRET |-> Null]
    /\ dbInitialized = TRUE /\ tablesCreated = TRUE

NextLogin ==
    \/ \E email \in Emails, password \in Passwords : Login(email, password)
    \/ \E password \in Passwords : VerifyPassword(password)
    \/ Tick

SpecLogin == InitLogin /\ [][NextLogin]_vars

\* Rotation beside the trigger pipeline: MaxCalls rotations, by the store method
\* or through the management handler, and one trigger request, on a webhook of
\* any policy whose device and user are active.
RotationRequests ==
    {request \in AuthRequests :
        /\ request.xApiKey \in {Null, Some("wc_k1")}
        /\ request.authorization \in {Null, Some([scheme |-> "Bearer", credential |-> "tok1"])}
        /\ IsNull(request.queryApiKey)}

\* await db.rotateWebhookId(webhook.id, user.id, newWebhookId, newWebhookSecret, reason)
RotateWebhookId(shortcutId, userId, reason) ==
    LET n == Len(webhook_rotations) + 1
        res == rotateWebhookId(shortcutId, userId, GeneratedWebhooks[n].id,
                               GeneratedWebhooks[n].secret, reason)
    IN  /\ call.n < MaxCalls
        /\ n <= Len(GeneratedWebhooks)
        /\ shortcuts' = res.shortcuts
        /\ webhook_rotations' = res.webhook_rotations
        /\ call' = Called("rotateWebhookId",
                          [shortcutId |-> shortcutId, userId |-> userId, reason |-> reason],
                          [outcome |-> IF IsNull(res.result) THEN "null" ELSE "rotated",
                           user |-> Some(userId)],
                          res.result)
        /\ UNCHANGED <<devices, users, rate_limits, webhook_executions, analytics,
                       audit_log, now, handlerVars, sessions, api_keys, user_account,
                       console, v1Vars>>

\* POST /webhooks/:webhookId/rotate
HandleWebhookRotation(request, body, webhookId) ==
    LET n == Len(webhook_rotations) + 1
        res == handleWebhookRotation(request, body, webhookId, now, n)
    IN  /\ call.n < MaxCalls
        /\ n <= Len(GeneratedWebhooks)
        /\ sessions' = res.sessions
        /\ api_keys' = res.api_keys
        /\ shortcuts' = res.shortcuts
        /\ webhook_rotations' = res.webhook_rotations
        /\ audit_log' = IF res.audited
                        THEN createAuditLog(audit_log, 0, res.user, "webhook_rotate",
                                            "webhook", webhookId, IpA)
                        ELSE audit_log
        /\ call' = Called("handleWebhookRotation",
                          [request |-> request, body |-> body, webhookId |-> webhookId],
                          res, res.disclosed)
        /\ UNCHANGED <<devices, users, rate_limits, webhook_executions, analytics,
                       now, handlerVars, user_account, console, v1Vars>>

InitRotate ==
    /\ shortcuts \in [ShortcutIds -> {row \in ShortcutRows(MaxUsesBound) :
            IsNull(row.expires_at) /\ row.max_uses \in {Null, Some(MaxUsesBound)}}]
    /\ InitRest
    /\ NoAccounts
    /\ devices.is_active /\ devices.token_ok
    /\ users.is_active
    /\ incoming = 1

NextRotate ==
    \/ \E shortcutId \in ShortcutIds, userId \in Actors,
          reason \in {"manual", "compromised"} : RotateWebhookId(shortcutId, userId, reason)
    \/ \E request \in RotationRequests, body \in RotationBodies, webhookId \in WebhookIds :
            HandleWebhookRotation(request, body, webhookId)
    \/ \E r \in Reqs : Trigger(r)
    \/ \E r \in Reqs : RateLimitRead(r)
    \/ \E r \in Reqs : RateLimitWrite(r)
    \/ \E r \in Reqs, success \in BOOLEAN : DecryptAndDispatch(r, success)
    \/ \E r \in Reqs : LogExecution(r)
    \/ \E r \in Reqs : UpdateAnalyticsRead(r)
    \/ \E r \in Reqs : UpdateAnalyticsAndAudit(r)
    \/ Tick

SpecRotate == InitRotate /\ [][NextRotate]_vars

\* Payloads of either size measure: MaxCallers requests without credential, each
\* recorded, to a webhook without policy.  A payload is given by the number of
\* characters of its JSON text that UTF-8 encodes in one byte and in two; all of
\* them are one UTF-16 code unit.
PayloadShapes ==
    {[ascii |-> MaxPayloadSize, wide |-> 0], [ascii |-> MaxPayloadSize + 1, wide |-> 0],
     [ascii |-> MaxPayloadSize - 1, wide |-> 1], [ascii |-> MaxPayloadSize - 2, wide |-> 1]}

\* JSON.stringify(payload).length: the number of UTF-16 code units
StringLength(payload) == payload.ascii + payload.wide

\* new TextEncoder().encode(JSON.stringify(payload)).length: the number of bytes
ByteLength(payload) == payload.ascii + 2 * payload.wide

PayloadRequests ==
    {[webhookId |-> "wh1", headers |-> [cf |-> <<IpA>>, xff |-> <<>>, xri |-> <<>>],
      signature |-> <<>>, body |-> "b1", cred |-> "none",
      payloadSize |-> StringLength(payload), payload |-> payload] :
        payload \in PayloadShapes}

NextPayload ==
    \/ \E r \in Reqs : TriggerObserved(r, PayloadRequests)
    \/ \E r \in Reqs : RateLimitRead(r)
    \/ \E r \in Reqs : RateLimitWrite(r)
    \/ \E r \in Reqs, success \in BOOLEAN : DecryptAndDispatch(r, success)
    \/ \E r \in Reqs : LogExecution(r)
    \/ \E r \in Reqs : UpdateAnalyticsRead(r)
    \/ \E r \in Reqs : UpdateAnalyticsAndAudit(r)
    \/ Tick

SpecPayload == InitCallers /\ [][NextPayload]_vars

\* The analytics table on its own: MaxCalls calls of updateAnalytics, of either
\* store class, with the response time the handler measured.
Latencies == {0, 2, 9}

\* await db.updateAnalytics(webhookId, notificationResult.success, responseTime):
\* the counters, and avg_response_time_ms beside them
UpdateAnalytics(class, webhookId, success, responseTime) ==
    LET existing == analytics[webhookId]
        counters == Val(updateAnalytics(analytics, webhookId, success)[webhookId])
        average ==
            IF IsNull(existing) THEN responseTime
            ELSE IF class = "DatabaseServiceV2"
            THEN AverageAfterUpdate(Val(existing).avg_response_time_ms,
                                    Val(existing).trigger_count, responseTime)
            ELSE newAvgResponseTime(Val(existing).avg_response_time_ms,
                                    Val(existing).trigger_count, responseTime)
    IN  /\ call.n < MaxCalls
        /\ analytics' = [analytics EXCEPT ![webhookId] =
                Some([trigger_count |-> counters.trigger_count,
                      success_count |-> counters.success_count,
                      failure_count |-> counters.failure_count,
                      avg_response_time_ms |-> average])]
        /\ call' = Called("updateAnalytics",
                          [class |-> class, webhookId |-> webhookId, success |-> success,
                           responseTime |-> responseTime],
                          [outcome |-> IF IsNull(existing) THEN "insert" ELSE "update",
                           user |-> Null], existing)
        /\ UNCHANGED <<shortcuts, devices, users, rate_limits, webhook_executions,
                       audit_log, now, handlerVars, sessions, api_keys, webhook_rotations,
                       user_account, console, v1Vars>>

NextAnalytics ==
    \/ \E class \in {"DatabaseService", "DatabaseServiceV2"}, webhookId \in WebhookIds,
          success \in BOOLEAN, responseTime \in Latencies :
            UpdateAnalytics(class, webhookId, success, responseTime)
    \/ Tick

SpecAnalytics == InitCallers /\ [][NextAnalytics]_vars

\* ------------------------------------------------- the routed handlers (index.js)
\* APNs device tokens of 64 hexadecimal characters
DeviceTokens == {"dt1"}

\* generateWebhookId(deviceToken, shortcutId): the first 32 hex characters of the
\* SHA-256 of `${deviceToken}:${shortcutId}:${Date.now()}`
generateWebhookId(deviceToken, shortcutId, t) ==
    <<"sha256/32", deviceToken, shortcutId, t>>

\* handleRegistration(request, env) at time t against the tables: the response
\* and the tables it leaves.  A column that holds a secret is written as the
\* pair of how it derives from the secret and the secret: "plain" for the secret
\* itself.
handleRegistration(tables, body, t) ==
    LET deviceToken == Val(body.deviceToken)
        stored == {d \in tables.devices : d.device_token = <<"plain", deviceToken>>}
        existing == {d \in stored : d.is_active}
        device ==
            IF existing # {} THEN CHOOSE d \in existing : TRUE
            ELSE [id |-> <<"device", Cardinality(tables.devices) + 1>>,
                  device_token |-> <<"plain", deviceToken>>, is_active |-> TRUE]
        deactivated ==
            {IF s.device_id = device.id THEN [s EXCEPT !.is_active = FALSE] ELSE s :
                s \in tables.shortcuts}
        shortcutsToCreate ==
            {[device_id |-> device.id, shortcut_id |-> body.shortcuts[k],
              webhook_id |-> generateWebhookId(deviceToken, body.shortcuts[k], t),
              is_active |-> TRUE, trigger_count |-> 0] : k \in 1..Len(body.shortcuts)}
        notUnique ==
            \E n \in shortcutsToCreate, s \in deactivated :
                \/ s.device_id = n.device_id /\ s.shortcut_id = n.shortcut_id
                \/ s.webhook_id = n.webhook_id
        registered == [tables EXCEPT !.devices = @ \cup {device}, !.shortcuts = deactivated]
    IN  IF IsNull(body.deviceToken)
        THEN [outcome |-> "400 Device token is required", tables |-> tables]
        ELSE IF deviceToken \notin DeviceTokens
        THEN [outcome |-> "400 Invalid device token format", tables |-> tables]
        ELSE IF existing = {} /\ stored # {}
        THEN [outcome |-> "500 Registration failed", tables |-> tables]
        ELSE IF notUnique
        THEN [outcome |-> "500 Registration failed", tables |-> registered]
        ELSE [outcome |-> "200 Device and shortcuts registered successfully",
              tables |-> [registered EXCEPT !.shortcuts = @ \cup shortcutsToCreate]]

\* validateWebhookSignature(request, signature, secret): true without a secret;
\* request.text() throws when the body was read before, which the catch turns
\* into false; else the header is compared with the hex HMAC of the body
validateWebhookSignature(bodyUsed, body, signature, secret) ==
    IF IsNull(secret) THEN TRUE
    ELSE IF bodyUsed THEN FALSE
    ELSE signature = ToHex(HmacSha256(body, Val(secret)))

\* SELECT s.*, d.device_token, ... FROM shortcuts s JOIN devices d ON s.device_id = d.id
\*   WHERE s.webhook_id = ? AND s.is_active = 1 AND d.is_active = 1
getLegacyShortcutByWebhook(tables, webhookId) ==
    {[webhook_id |-> s.webhook_id, shortcut_id |-> s.shortcut_id, device_id |-> s.device_id,
      trigger_count |-> s.trigger_count, device_token |-> d.device_token] :
        <<s, d>> \in {x \in tables.shortcuts \X tables.devices :
                        /\ x[1].webhook_id = webhookId /\ x[1].is_active
                        /\ x[2].id = x[1].device_id /\ x[2].is_active}}

\* handleWebhookRequest(request, env, webhookId) at time t, the notification
\* succeeding or not and the whole taking responseTime: the response, the store
\* and dispatch calls made, in order, the lines logged with row data, and the
\* tables it leaves
handleWebhookRequest(tables, secret, q, success, responseTime, t) ==
    LET bodyUsed == q.json
        isValid == validateWebhookSignature(bodyUsed, q.body, q.signature, secret)
        found == getLegacyShortcutByWebhook(tables, q.webhookId)
        webhookData == CHOOSE row \in found : TRUE
        key == <<<<"webhook", q.webhookId>>, WindowStart(t, WindowMinutes)>>
        counted == key \in DOMAIN tables.rate_limits
        limited == counted /\ RateLimitExceeded(tables.rate_limits[key], RateLimitPerMinute)
        rateLimits == IF counted THEN [tables.rate_limits EXCEPT ![key] = @ + 1]
                      ELSE (key :> 1) @@ tables.rate_limits
        execution == [webhook_id |-> q.webhookId, shortcut_id |-> webhookData.shortcut_id,
                      device_id |-> webhookData.device_id,
                      status |-> IF success THEN "success" ELSE "failed",
                      response_time_ms |-> responseTime]
        triggered == {IF success /\ s.webhook_id = q.webhookId
                      THEN [s EXCEPT !.trigger_count = @ + 1] ELSE s :
                        s \in tables.shortcuts}
        analyticsRows ==
            IF q.webhookId \in DOMAIN tables.analytics
            THEN [tables.analytics EXCEPT ![q.webhookId] =
                    [trigger_count |-> @.trigger_count + 1,
                     success_count |-> @.success_count + (IF success THEN 1 ELSE 0),
                     failure_count |-> @.failure_count + (IF success THEN 0 ELSE 1),
                     avg_response_time_ms |->
                        newAvgResponseTime(@.avg_response_time_ms, @.trigger_count,
                                           responseTime)]]
            ELSE (q.webhookId :> [trigger_count |-> 1,
                                  success_count |-> IF success THEN 1 ELSE 0,
                                  failure_count |-> IF success THEN 0 ELSE 1,
                                  avg_response_time_ms |-> responseTime])
                 @@ tables.analytics
        line == [text |-> "Webhook data:", data |-> webhookData]
        checked == IF q.signature # <<>> THEN <<"validateWebhookSignature">> ELSE <<>>
    IN  IF q.signature # <<>> /\ ~isValid
        THEN [outcome |-> "401 Invalid signature", steps |-> checked, console |-> {},
              tables |-> tables]
        ELSE IF found = {}
        THEN [outcome |-> "404 Webhook not found",
              steps |-> checked \o <<"getShortcutByWebhook">>, console |-> {},
              tables |-> tables]
        ELSE IF limited
        THEN [outcome |-> "429 Rate limit exceeded",
              steps |-> checked \o <<"getShortcutByWebhook", "checkRateLimit">>,
              console |-> {line}, tables |-> tables]
        ELSE [outcome |-> IF success THEN "200 Shortcut triggered successfully"
                          ELSE "500 Failed to send notification",
              steps |-> checked \o <<"getShortcutByWebhook", "checkRateLimit",
                                     "sendPushNotification", "logWebhookExecution",
                                     "updateAnalytics">>,
              console |-> {line},
              tables |-> [tables EXCEPT
                            !.rate_limits = rateLimits,
                            !.webhook_executions = Append(@, execution),
                            !.shortcuts = triggered,
                            !.analytics = analyticsRows]]

\* POST /register
HandleRegistration(body) ==
    LET res == handleRegistration(v1, body, now)
    IN  /\ call.n < MaxCalls
        /\ v1' = res.tables
        /\ call' = Called("handleRegistration", body,
                          [outcome |-> res.outcome, user |-> Null], Null)
        /\ UNCHANGED <<storeVars, now, handlerVars, sessions, api_keys, webhook_rotations,
                       user_account, console, env,
                       dbInitialized, tablesCreated>>

\* POST /webhook/:id, for a request with or without a JSON content type
HandleWebhookRequest(q, success, responseTime) ==
    LET res == handleWebhookRequest(v1, env.WEBHOOK_SECRET, q, success, responseTime, now)
    IN  /\ call.n < MaxCalls
        /\ v1' = res.tables
        /\ console' = console \cup res.console
        /\ call' = Called("handleWebhookRequest", q,
                          [outcome |-> res.outcome, user |-> Null], res.steps)
        /\ UNCHANGED <<storeVars, now, handlerVars, sessions, api_keys, webhook_rotations,
                       user_account, env,
                       dbInitialized, tablesCreated>>

\* The worker as index.js routes it, with or without WEBHOOK_SECRET: MaxCalls
\* requests to POST /register and POST /webhook/:id, the tables empty at first.
InitV1 ==
    /\ shortcuts \in [ShortcutIds -> {row \in ShortcutRows(0) :
            /\ IsNull(row.expires_at) /\ IsNull(row.max_uses)
            /\ IsNull(row.allowed_ips) /\ IsNull(row.webhook_secret)}]
    /\ InitRest
    /\ devices.is_active /\ devices.token_ok
    /\ users.is_active
    /\ incoming = 0
    /\ sessions = [s \in SessionIds |-> NoSession]
    /\ api_keys = [k \in KeyIds |-> NoApiKey]
    /\ webhook_rotations = <<>>
    /\ user_account = [password_hash |-> GenuineHash, is_verified |-> TRUE]
    /\ console = {}
    /\ call = NoCall
    /\ v1 = EmptyStore
    /\ env \in [WEBHOOK_SECRET : {Null, Some("whsec")}]
    /\ dbInitialized = TRUE /\ tablesCreated = TRUE

NextV1 ==
    \/ \E body \in [deviceToken : {Null, Some("dt1"), Some("not hex")},
                     shortcuts : {<<>>, <<"sc1">>, <<"sc2">>}] : HandleRegistration(body)
    \/ \E q \in [webhookId : {generateWebhookId("dt1", "sc1", t) : t \in 0..MaxTime},
                  json : BOOLEAN, signature : {<<>>, <<"a", "0">>, <<"0", "a">>},
                  body : Bodies],
          success \in BOOLEAN, responseTime \in Latencies :
            HandleWebhookRequest(q, success, responseTime)
    \/ Tick

SpecV1 == InitV1 /\ [][NextV1]_vars

\* The rate limiter with any window size: MaxCalls calls of
\* db.checkRateLimit(identifier, windowMinutes, maxRequests), one after the
\* other, at times around the turns of two hours.
\* checkRateLimit at time t against the rate_limits table: the result, the
\* window start it computed and the tables it leaves
checkRateLimit(tables, identifier, windowMinutes, maxRequests, t) ==
    LET windowStart == WindowStart(t, windowMinutes)
        key == <<identifier, windowStart>>
        result == key \in DOMAIN tables.rate_limits
    IN  IF ~result
        THEN [allowed |-> TRUE, remaining |-> RemainingAfterInsert(maxRequests),
              windowStart |-> windowStart,
              tables |-> [tables EXCEPT !.rate_limits = (key :> 1) @@ @]]
        ELSE IF RateLimitExceeded(tables.rate_limits[key], maxRequests)
        THEN [allowed |-> FALSE, remaining |-> 0, windowStart |-> windowStart,
              tables |-> tables]
        ELSE [allowed |-> TRUE,
              remaining |-> RemainingAfterUpdate(tables.rate_limits[key], maxRequests),
              windowStart |-> windowStart,
              tables |-> [tables EXCEPT !.rate_limits[key] = @ + 1]]

\* await db.checkRateLimit(identifier, windowMinutes, maxRequests) when the clock
\* shows t
CheckRateLimitAt(identifier, windowMinutes, maxRequests, t) ==
    LET res == checkRateLimit(v1, identifier, windowMinutes, maxRequests, t)
    IN  /\ call.n < MaxCalls
        /\ t >= now
        /\ now' = t
        /\ v1' = res.tables
        /\ call' = [n |-> call.n + 1, op |-> "checkRateLimit",
                    input |-> [identifier |-> identifier, windowMinutes |-> windowMinutes,
                               maxRequests |-> maxRequests],
                    outcome |-> IF res.allowed THEN "allowed" ELSE "denied",
                    user |-> Null, at |-> t, detail |-> Some(res.windowStart)]
        /\ UNCHANGED <<storeVars, handlerVars, sessions, api_keys, webhook_rotations,
                       user_account, console, env,
                       dbInitialized, tablesCreated>>

NextWindows ==
    \E identifier \in Identifiers, windowMinutes \in {1, 7, 15, 60, 90},
       maxRequests \in {UserRateLimitPerMinute},
       minute \in {0, 6, 7, 14, 55, 56, 58, 59, 60, 61, 66, 89, 90, 119, 120},
       tick \in 0..(TicksPerMinute - 1) :
        CheckRateLimitAt(identifier, windowMinutes, maxRequests,
                         minute * TicksPerMinute + tick)

SpecWindows == InitV1 /\ [][NextWindows]_vars

\* The management endpoints: MaxCalls requests to rotate, update or read the
\* statistics of a webhook, by the user who owns it or by another user, with a
\* session or an API key that carries every permission.
\* PATCH /api/webhooks/:webhookId
HandleWebhookUpdate(request, updates, webhookId) ==
    LET res == handleWebhookUpdate(request, updates, webhookId, now)
    IN  /\ call.n < MaxCalls
        /\ sessions' = res.sessions
        /\ api_keys' = res.api_keys
        /\ shortcuts' = res.shortcuts
        /\ audit_log' = IF res.audited
                        THEN createAuditLog(audit_log, 0, res.user, "webhook_update",
                                            "webhook", webhookId, IpA)
                        ELSE audit_log
        /\ call' = Called("handleWebhookUpdate",
                          [request |-> request, body |-> updates, webhookId |-> webhookId],
                          res, res.disclosed)
        /\ UNCHANGED <<devices, users, rate_limits, webhook_executions, analytics,
                       now, handlerVars, webhook_rotations, user_account, console, v1Vars>>

\* GET /api/webhooks/:webhookId/stats
HandleWebhookStats(request, webhookId) ==
    LET res == handleWebhookStats(request, webhookId, now)
    IN  /\ call.n < MaxCalls
        /\ sessions' = res.sessions
        /\ api_keys' = res.api_keys
        /\ call' = Called("handleWebhookStats",
                          [request |-> request, body |-> Null, webhookId |-> webhookId],
                          res, res.disclosed)
        /\ UNCHANGED <<storeVars, now, handlerVars, webhook_rotations, user_account,
                       console, v1Vars>>

InitManage ==
    /\ shortcuts \in [ShortcutIds -> {row \in ShortcutRows(0) : IsNull(row.expires_at)}]
    /\ InitRest
    /\ devices.is_active /\ devices.token_ok
    /\ users.is_active
    /\ incoming = 0
    /\ \E u \in Actors :
            sessions = [s \in SessionIds |->
                IF s # "sess1" THEN NoSession
                ELSE [token_hash |-> sha256("tok1"), user_id |-> u,
                      expires_at |-> MaxTime + 1, is_active |-> TRUE]]
    /\ \E u \in Actors :
            api_keys = [k \in KeyIds |->
                IF k # "key1" THEN NoApiKey
                ELSE [NoApiKey EXCEPT !.key_hash = sha256("wc_k1"),
                                      !.key_prefix = <<"prefix", "wc_k1">>,
                                      !.user_id = u, !.permissions = {"*"},
                                      !.is_active = TRUE]]
    /\ webhook_rotations = <<>>
    /\ user_account = [password_hash |-> GenuineHash, is_verified |-> TRUE]
    /\ console = {}
    /\ call = NoCall
    /\ v1 = EmptyStore
    /\ env = [WEBHOOK_SECRET |-> Null]
    /\ dbInitialized = TRUE /\ tablesCreated = TRUE

NextManage ==
    \/ \E request \in RotationRequests, body \in RotationBodies, webhookId \in WebhookIds :
            HandleWebhookRotation(request, body, webhookId)
    \/ \E request \in RotationRequests, updates \in UpdateBodies, webhookId \in WebhookIds :
            HandleWebhookUpdate(request, updates, webhookId)
    \/ \E request \in RotationRequests, webhookId \in WebhookIds :
            HandleWebhookStats(request, webhookId)
    \/ Tick

SpecManage == InitManage /\ [][NextManage]_vars

\* ------------------------------------------------------------------ the worker
\* an initialize() that returns although createTables() failed
initializeSwallowing(exist, up) == [threw |-> FALSE, tablesCreated |-> up \/ exist]

\* DatabaseInitializer.initialize(): SELECT 1 FROM devices LIMIT 1 succeeds when
\* the tables exist and the store answers (up); else createTables() runs its
\* CREATE ... IF NOT EXISTS statements and throws when the store fails one.
\* Whether it threw, and whether the tables exist afterwards.
initialize(exist, up) ==
    IF up THEN [threw |-> FALSE, tablesCreated |-> TRUE]
    ELSE [threw |-> TRUE, tablesCreated |-> exist]

\* the requests of the worker: the method, the shape of the path, the id in
\* it, the body of a registration, the trigger and whether x-admin-key equals
\* env.ADMIN_KEY.  PUT /device/:deviceToken is drawn without a token only.
WorkerRequests ==
    LET webhookId == generateWebhookId("dt1", "sc1", 0)
        plain(method, path) ==
            [method |-> method, path |-> path, id |-> Null, body |-> Null, q |-> Null,
             adminKey |-> FALSE]
    IN  {plain("OPTIONS", "/register"), plain("GET", "/health"), plain("GET", "/other"),
         plain("POST", "/webhook/"), plain("PUT", "/device/"),
         plain("POST", "/admin/init-db"),
         [plain("POST", "/admin/init-db") EXCEPT !.adminKey = TRUE],
         [plain("POST", "/register") EXCEPT
            !.body = Some([deviceToken |-> Some("dt1"), shortcuts |-> <<"sc1">>])],
         [plain("POST", "/webhook/:id") EXCEPT
            !.id = Some(webhookId),
            !.q = Some([webhookId |-> webhookId, json |-> TRUE, signature |-> <<>>,
                        body |-> "b1"])],
         [plain("GET", "/webhook/:id/info") EXCEPT !.id = Some(webhookId)]}

\* the routes of fetch, in the order it tries them
Route(method, path) ==
    LET startsWithWebhook == path \in {"/webhook/", "/webhook/:id", "/webhook/:id/info"}
        startsWithDevice == path \in {"/device/", "/device/:deviceToken"}
    IN  IF method = "OPTIONS" THEN "preflight"
        ELSE IF path = "/register" /\ method = "POST" THEN "handleRegistration"
        ELSE IF startsWithWebhook /\ method = "POST"
        THEN IF path = "/webhook/" THEN "400 Missing shortcut ID" ELSE "handleWebhookRequest"
        ELSE IF startsWithDevice /\ method = "PUT"
        THEN IF path = "/device/" THEN "400 Missing device token" ELSE "handleDeviceUpdate"
        ELSE IF path = "/health" /\ method = "GET" THEN "health"
        ELSE IF path = "/admin/init-db" /\ method = "POST" THEN "init-db"
        ELSE IF startsWithWebhook /\ path = "/webhook/:id/info" /\ method = "GET"
        THEN "info"
        ELSE "404 Not found"

\* fetch(request, env, ctx) from the CORS preflight on, at time t, the
\* notification succeeding or not and the store answering or not: the
\* response, the tables and the flag it leaves
route(request, success, up, t) ==
    LET untouched(outcome) ==
            [outcome |-> outcome, tables |-> v1, console |-> {},
             dbInitialized |-> dbInitialized, tablesCreated |-> tablesCreated]
        handled(res, lines) ==
            [outcome |-> res.outcome, tables |-> res.tables, console |-> lines,
             dbInitialized |-> dbInitialized, tablesCreated |-> tablesCreated]
        name == Route(request.method, request.path)
    IN  CASE name = "preflight" -> untouched("200 preflight")
          [] name = "handleRegistration" ->
                handled(handleRegistration(v1, Val(request.body), t), {})
          [] name = "handleWebhookRequest" ->
                LET res == handleWebhookRequest(v1, env.WEBHOOK_SECRET, Val(request.q),
                                                success, 0, t)
                IN  handled(res, res.console)
          [] name = "health" ->
                untouched(IF dbInitialized THEN "200 healthy, database ready"
                          ELSE "200 healthy, database not initialized")
          [] name = "init-db" ->
                IF ~request.adminKey THEN untouched("401 Unauthorized")
                ELSE IF initialize(tablesCreated, up).threw
                THEN untouched("500 Database initialization failed")
                ELSE [untouched("200 Database initialized successfully") EXCEPT
                        !.dbInitialized = TRUE,
                        !.tablesCreated = initialize(tablesCreated, up).tablesCreated]
          [] name = "info" ->
                IF getLegacyShortcutByWebhook(v1, Val(request.id)) = {}
                THEN untouched("404 Webhook not found")
                ELSE untouched("200 webhook info")
          [] name \in {"400 Missing shortcut ID", "400 Missing device token",
                        "404 Not found"} -> untouched(name)

\* a request arrives: if (!dbInitialized) it awaits dbInit.initialize() first
Fetch(r, request) ==
    /\ pc[r] = "idle"
    /\ r = started + 1
    /\ incoming > 0
    /\ started' = r
    /\ incoming' = incoming - 1
    /\ observed' = [observed EXCEPT ![r] =
            [request |-> Some(request), resolved |-> FALSE, clientIp |-> Null]]
    /\ pc' = [pc EXCEPT ![r] = IF dbInitialized THEN "route" ELSE "initialize"]
    /\ peak' = Max(peak, Cardinality(InFlight(pc) \cup {r}))
    /\ UNCHANGED <<storeVars, now, reqWebhookId, payloadSize, gate, rl, notif, resp,
                   dispatchCount, rlPeak, acctVars>>

\* await dbInit.initialize() returns: dbInitialized = true; or it throws:
\* catch (error) { return 500 'Database initialization failed' }
Initialize(r, up) ==
    LET res == initialize(tablesCreated, up)
    IN  /\ pc[r] = "initialize"
        /\ tablesCreated' = res.tablesCreated
        /\ IF res.threw
           THEN /\ resp' = [resp EXCEPT ![r] = "500 Database initialization failed"]
                /\ pc' = [pc EXCEPT ![r] = "done"]
                /\ UNCHANGED dbInitialized
           ELSE /\ dbInitialized' = TRUE
                /\ pc' = [pc EXCEPT ![r] = "route"]
                /\ UNCHANGED resp
        /\ UNCHANGED <<storeVars, now, reqWebhookId, payloadSize, gate, rl, notif,
                       dispatchCount, started, incoming, peak, rlPeak, observed,
                       sessions, api_keys, webhook_rotations, user_account, console, call,
                       v1, env>>

\* the CORS preflight and the routes
RouteRequest(r, success, up) ==
    LET request == Val(observed[r].request)
        res == route(request, success, up, now)
    IN  /\ pc[r] = "route"
        /\ resp' = [resp EXCEPT ![r] = res.outcome]
        /\ pc' = [pc EXCEPT ![r] = "done"]
        /\ v1' = res.tables
        /\ console' = console \cup res.console
        /\ dbInitialized' = res.dbInitialized
        /\ tablesCreated' = res.tablesCreated
        /\ call' = Called(Route(request.method, request.path), request,
                          [outcome |-> res.outcome, user |-> Null], Null)
        /\ UNCHANGED <<storeVars, now, reqWebhookId, payloadSize, gate, rl, notif,
                       dispatchCount, started, incoming, peak, rlPeak, observed,
                       sessions, api_keys, webhook_rotations, user_account, env>>

\* A fresh worker instance on a store whose tables exist or not, with or
\* without WEBHOOK_SECRET: MaxRequests requests, overlapping at will.
InitWorker ==
    /\ shortcuts \in [ShortcutIds -> {row \in ShortcutRows(0) :
            /\ IsNull(row.expires_at) /\ IsNull(row.max_uses)
            /\ IsNull(row.allowed_ips) /\ IsNull(row.webhook_secret)}]
    /\ InitRest
    /\ devices.is_active /\ devices.token_ok
    /\ users.is_active
    /\ incoming = MaxRequests
    /\ sessions = [s \in SessionIds |-> NoSession]
    /\ api_keys = [k \in KeyIds |-> NoApiKey]
    /\ webhook_rotations = <<>>
    /\ user_account = [password_hash |-> GenuineHash, is_verified |-> TRUE]
    /\ console = {}
    /\ call = NoCall
    /\ v1 = EmptyStore
    /\ env \in [WEBHOOK_SECRET : {Null, Some("whsec")}]
    /\ dbInitialized = FALSE
    /\ tablesCreated \in BOOLEAN

NextWorker ==
    \/ \E r \in Reqs, request \in WorkerRequests : Fetch(r, request)
    \/ \E r \in Reqs, up \in BOOLEAN : Initialize(r, up)
    \/ \E r \in Reqs, success \in BOOLEAN, up \in BOOLEAN : RouteRequest(r, success, up)
    \/ Tick

SpecWorker == InitWorker /\ [][NextWorker]_vars

\* -------------------------------------------------------------- properties
ExecutionsOf(r) == {i \in 1..Len(webhook_executions) : webhook_executions[i].req = r}
AuditsOf(r) == {i \in 1..Len(audit_log) : audit_log[i].req = r}

\* the rows a lookup of webhookId resolves: an active row of an active device
\* of an active user
Resolvable(webhookId) ==
    {s \in ShortcutIds : /\ shortcuts[s].webhook_id = webhookId
                         /\ shortcuts[s].is_active
                         /\ devices.is_active
                         /\ users.is_active}

\* request r is received in this step
Received(r) == pc[r] = "idle" /\ pc'[r] # "idle"

C1_TriggerCountStep ==
    \A s \in ShortcutIds :
        \/ shortcuts'[s].trigger_count = shortcuts[s].trigger_count
        \/ /\ shortcuts'[s].trigger_count = shortcuts[s].trigger_count + 1
           /\ \E r \in Reqs :
                /\ pc[r] = "log_execution" /\ pc'[r] = "update_analytics"
                /\ notif[r] = "sent"
                /\ dispatchCount[r] = 1
                /\ reqWebhookId[r] = shortcuts[s].webhook_id
                /\ Len(webhook_executions') = Len(webhook_executions) + 1
                /\ webhook_executions'[Len(webhook_executions')].req = r
                /\ webhook_executions'[Len(webhook_executions')].status = "success"

\* C1: a webhook's trigger_count never decreases and changes only by +1, in the
\* step that records the execution of a dispatch that succeeded; a step that
\* rejects, rate-limits, refuses the payload, records a failed dispatch or
\* handles an error leaves it unchanged.
C1_TriggerCountOnlyOnSuccess == [][C1_TriggerCountStep]_vars

\* one dispatch succeeded and was counted, another failed and was not
C1_Witness ==
    \E s \in ShortcutIds, r \in Reqs :
        /\ shortcuts[s].trigger_count = 1
        /\ pc[r] = "done" /\ notif[r] = "not_sent" /\ ExecutionsOf(r) # {}

\* the recorded successful triggers of webhookId among the requests before r
SucceededBefore(r, webhookId) ==
    Cardinality({o \in Reqs : /\ o < r
                              /\ reqWebhookId[o] = webhookId
                              /\ notif[o] = "sent"
                              /\ ExecutionsOf(o) # {}})

\* C2: under sequential calls a webhook with max_uses = N never has
\* trigger_count > N, and once N triggers have succeeded every further trigger
\* that reaches the usage check is rejected with usage_exceeded and makes no
\* dispatch call.
C2_UsageNeverExceedsMaxUses ==
    peak <= 1 =>
        \A s \in ShortcutIds :
            ~IsNull(shortcuts[s].max_uses) =>
                /\ shortcuts[s].trigger_count <= Val(shortcuts[s].max_uses)
                /\ \A r \in Reqs :
                        (/\ pc[r] # "idle"
                         /\ reqWebhookId[r] = shortcuts[s].webhook_id
                         /\ gate[r] \notin {"not_found", "expired"}
                         /\ SucceededBefore(r, reqWebhookId[r]) >= Val(shortcuts[s].max_uses))
                        => gate[r] = "usage_exceeded" /\ dispatchCount[r] = 0

C3_ExpiredStep ==
    \A r \in Reqs :
        /\ (/\ Received(r)
            /\ \E s \in Resolvable(reqWebhookId'[r]) :
                    /\ ~IsNull(shortcuts[s].expires_at)
                    /\ Val(shortcuts[s].expires_at) < now)
           => gate'[r] = "expired"
        /\ gate'[r] = "expired" =>
                /\ resp'[r] = "410 Webhook has expired"
                /\ pc'[r] = "done"
                /\ dispatchCount'[r] = 0

\* C3 (amended): a trigger of a webhook that the lookup resolves and whose
\* expires_at is set and in the past when the trigger is received is answered
\* 410 and never reaches the Dispatcher.
C3_ExpiredGone == [][C3_ExpiredStep]_vars

C3_Witness ==
    \E r \in Reqs : gate[r] = "expired" /\ resp[r] = "410 Webhook has expired"

C3_AnyExpiredStep ==
    \A r \in Reqs :
        (/\ Received(r)
         /\ \E s \in ShortcutIds :
                /\ shortcuts[s].webhook_id = reqWebhookId'[r]
                /\ ~IsNull(shortcuts[s].expires_at)
                /\ Val(shortcuts[s].expires_at) < now)
        => gate'[r] = "expired" /\ resp'[r] = "410 Webhook has expired"

\* C3 (as stated): a trigger of any webhook whose expires_at is set and in the
\* past is answered 410.
C3_EveryExpiredWebhookGone == [][C3_AnyExpiredStep]_vars

Returned(r) == rl[r].state \in {"allowed", "denied", "error"}
Admitted(i, w) ==
    {r \in Reqs : rl[r].state = "allowed" /\ rl[r].identifier = i /\ rl[r].window = w}
Refused(i, w) ==
    {r \in Reqs : rl[r].state = "denied" /\ rl[r].identifier = i /\ rl[r].window = w}
LimitOf(i) == RateLimitMax(UserOf(i))

\* C4: for sequential checks of one identifier with limit M, the k-th check of a
\* window is allowed with remaining = M - k when k <= M and denied with
\* remaining = 0 when k > M, the stored count is the number of allowed checks
\* (a denied check does not change it), and the count starts again in a later
\* window.
C4_SequentialChecks ==
    \A i \in Identifiers :
        rlPeak[i] <= 1 =>
            /\ \A r \in Reqs :
                    (Returned(r) /\ rl[r].identifier = i) =>
                        /\ rl[r].max = LimitOf(i)
                        /\ rl[r].k <= rl[r].max =>
                                /\ rl[r].state = "allowed"
                                /\ rl[r].remaining = rl[r].max - rl[r].k
                        /\ rl[r].k > rl[r].max =>
                                /\ rl[r].state = "denied"
                                /\ rl[r].remaining = 0
            /\ \A w \in Windows :
                    /\ rate_limits[<<i, w>>] = Cardinality(Admitted(i, w))
                    /\ Refused(i, w) # {} => rate_limits[<<i, w>>] = LimitOf(i)

\* the limit was used up, the next check was denied, and the first check of a
\* later window was allowed with remaining = M - 1
C4_Witness ==
    \E i \in Identifiers, r1, r2 \in Reqs :
        /\ rlPeak[i] = 1
        /\ rl[r1].identifier = i /\ rl[r2].identifier = i
        /\ rl[r1].state = "denied" /\ rl[r1].k = LimitOf(i) + 1
        /\ rl[r2].state = "allowed" /\ rl[r2].window > rl[r1].window
        /\ rl[r2].remaining = LimitOf(i) - 1

\* C5: with at most k checks of an identifier in flight at once, the checks
\* allowed in one window number at most maxRequests + (k - 1).
C5_BoundedOverAdmission ==
    \A i \in Identifiers, w \in Windows :
        Cardinality(Admitted(i, w)) <= LimitOf(i) + (Max(rlPeak[i], 1) - 1)

\* concurrent checks admitted more than the limit
C5_Witness ==
    \E i \in Identifiers, w \in Windows : Cardinality(Admitted(i, w)) > LimitOf(i)

\* C6: a request calls the Dispatcher at most once, and a request that has been
\* answered called it exactly once if and only if the gate accepted it, its
\* payload is within the cap, the rate limiter allowed it and the device token
\* was decrypted.
C6_DispatchAtMostOnce ==
    \A r \in Reqs :
        /\ dispatchCount[r] <= 1
        /\ pc[r] = "done" =>
                (dispatchCount[r] = 1 <=>
                    /\ gate[r] = "accepted"
                    /\ payloadSize[r] <= MaxPayloadSize
                    /\ rl[r].state = "allowed"
                    /\ devices.token_ok)

\* a dispatch failed and the request was answered without a second call
C6_Witness ==
    \E r \in Reqs : pc[r] = "done" /\ notif[r] = "not_sent" /\ dispatchCount[r] = 1

C8_EveryAttemptRecorded ==
    \A r \in Reqs :
        pc[r] = "done" =>
            /\ Cardinality(ExecutionsOf(r)) = 1
            /\ \A i \in ExecutionsOf(r) :
                    /\ gate[r] \in GateRejections =>
                            webhook_executions[i].status = "unauthorized"
                    /\ (resp[r] = "500 Internal server error" /\ notif[r] # "sent") =>
                            webhook_executions[i].status = "failed"

\* C9: a request that the gate rejected, for whichever reason, is not answered
\* before exactly one audit row is written for it, with resource_type webhook
\* and action webhook_trigger_unauthorized.
C9_RejectionAudited ==
    \A r \in Reqs :
        (gate[r] \in GateRejections /\ resp[r] # "none") =>
            /\ resp[r] = GateResponse(gate[r])
            /\ Cardinality(AuditsOf(r)) = 1
            /\ \A i \in AuditsOf(r) :
                    /\ audit_log[i].action = "webhook_trigger_unauthorized"
                    /\ audit_log[i].resource_type = "webhook"
                    /\ audit_log[i].resource_id = reqWebhookId[r]

\* two requests rejected for different reasons, each with its audit row
C9_Witness ==
    \E r1, r2 \in Reqs :
        /\ gate[r1] \in GateRejections /\ gate[r2] \in GateRejections
        /\ gate[r1] # gate[r2]
        /\ pc[r1] = "done" /\ pc[r2] = "done"
        /\ Len(audit_log) = 2

C10_LookupStep ==
    \A r \in Reqs :
        /\ Received(r) =>
                (gate'[r] = "not_found" <=> Resolvable(reqWebhookId'[r]) = {})
        /\ gate'[r] = "not_found" =>
                /\ resp'[r] = "404 Webhook not found"
                /\ pc'[r] = "done"
                /\ dispatchCount'[r] = 0

\* C10: a trigger passes the lookup only if its webhook id names a row that is
\* active and whose device and user are active when it is looked up; otherwise
\* it is answered 404 'Webhook not found' and never reaches the Dispatcher.
C10_LookupRequiresAllActive == [][C10_LookupStep]_vars

\* a webhook was triggered and dispatched, then deactivated, and the next
\* trigger was answered 404
C10_Witness ==
    \E r1, r2 \in Reqs :
        /\ dispatchCount[r1] = 1
        /\ reqWebhookId[r2] = reqWebhookId[r1]
        /\ gate[r2] = "not_found" /\ resp[r2] = "404 Webhook not found"

\* ------------------------------------------------- properties of the gate
Observed(r) == ~IsNull(observed[r].request)
RequestOf(r) == Val(observed[r].request)

\* the rows with the webhook id of request r
RowsOf(r) == {s \in ShortcutIds : shortcuts[s].webhook_id = reqWebhookId[r]}

\* request r got as far as the IP check
ReachedIpCheck(r) ==
    /\ Observed(r)
    /\ gate[r] \notin {"none", "not_found", "expired", "usage_exceeded"}

\* C11: a request that reaches the IP check passes it if and only if the
\* webhook's allowed_ips is empty or contains the caller's resolved IP (the
\* first forwarded-for value with its fallbacks, the ip_address of the
\* request's audit rows); a request that does not pass is rejected as
\* ip_denied, never dispatched, and audited once as
\* webhook_trigger_unauthorized.
C11_IpCheck ==
    \A r \in Reqs : \A s \in RowsOf(r) :
        ReachedIpCheck(r) =>
            /\ gate[r] # "ip_denied" <=>
                    \/ IsNull(shortcuts[s].allowed_ips)
                    \/ Val(shortcuts[s].allowed_ips) = {}
                    \/ \E ip \in Val(shortcuts[s].allowed_ips) :
                            observed[r].clientIp = Some(<<ip>>)
            /\ gate[r] = "ip_denied" =>
                    /\ dispatchCount[r] = 0
                    /\ resp[r] = "403 Access denied from this IP address"
                    /\ Cardinality(AuditsOf(r)) = 1
                    /\ \A i \in AuditsOf(r) :
                            audit_log[i].action = "webhook_trigger_unauthorized"

\* request r got as far as the signature check of a webhook with a secret
ReachedSignatureCheck(r, s) ==
    /\ ReachedIpCheck(r)
    /\ gate[r] # "ip_denied"
    /\ ~IsNull(shortcuts[s].webhook_secret)

\* the signature of the body of request r under the secret of row s
SignatureFor(r, s) ==
    ToHex(HmacSha256(RequestOf(r).body, Val(shortcuts[s].webhook_secret)))

\* C12: at a webhook with a secret, a request is accepted only if its
\* signature header is the signature of its exact body under that secret; a
\* request without the header is rejected as signature_required, one with any
\* other signature as signature_invalid, and neither is dispatched.
C12_SignatureRequired ==
    \A r \in Reqs : \A s \in RowsOf(r) :
        ReachedSignatureCheck(r, s) =>
            /\ gate[r] = "accepted" => RequestOf(r).signature = SignatureFor(r, s)
            /\ RequestOf(r).signature = <<>> => gate[r] = "signature_required"
            /\ RequestOf(r).signature \notin {<<>>, SignatureFor(r, s)} =>
                    gate[r] = "signature_invalid"
            /\ gate[r] \in {"signature_required", "signature_invalid"} =>
                    dispatchCount[r] = 0

\* a signature that is not the hex string of a byte sequence as long as the
\* computed one: a character that is no hex digit, an odd length, no byte at
\* all, or another length
Malformed(signature, mac) ==
    \/ \E i \in 1..Len(signature) : HexValue(signature[i]) < 0
    \/ Len(signature) % 2 = 1
    \/ Len(signature) < 2
    \/ Len(signature) # 2 * Len(mac)

\* C13: at a webhook with a secret, a request whose signature header is
\* present and malformed is rejected as signature_invalid and answered 401,
\* never answered with an internal error and never accepted.
C13_MalformedSignatureRejected ==
    \A r \in Reqs : \A s \in RowsOf(r) :
        (/\ ReachedSignatureCheck(r, s)
         /\ RequestOf(r).signature # <<>>
         /\ Malformed(RequestOf(r).signature,
                      HmacSha256(RequestOf(r).body, Val(shortcuts[s].webhook_secret))))
        => /\ gate[r] = "signature_invalid"
           /\ resp[r] = "401 Invalid webhook signature"

\* The checks of the gate in their order, for request q and the row it names
\* at time t: whether each one, taken as the gate implements it, fails.
FailingChecks(q, t) ==
    LET rows == Resolvable(q.webhookId)
        w == shortcuts[CHOOSE s \in rows : TRUE]
        verified == verifyHMAC(q.body, q.signature, Val(w.webhook_secret))
    IN  IF rows = {} THEN <<"not_found">>
        ELSE SelectSeq(
                << IF IsExpired(w, t) THEN "expired" ELSE "",
                   IF UsageExceeded(w) THEN "usage_exceeded" ELSE "",
                   IF IpDenied(w, q.headers) THEN "ip_denied" ELSE "",
                   IF IsNull(w.webhook_secret) THEN ""
                   ELSE IF q.signature = <<>> THEN "signature_required"
                   ELSE IF verified = "throw" THEN "throw"
                   ELSE IF verified = "false" THEN "signature_invalid" ELSE "" >>,
                LAMBDA reason : reason # "")

C14_OrderStep ==
    \A r \in Reqs :
        (Received(r) /\ Observed(r)') =>
            LET q == Val(observed'[r].request)
                failing == FailingChecks(q, now)
            IN  /\ failing # <<>> => gate'[r] = Head(failing)
                /\ failing = <<>> => gate'[r] = "accepted"
                /\ observed'[r].resolved =>
                        /\ gate'[r] = "accepted"
                        /\ q.cred # "none"

\* C14: the outcome of the gate is the first check that fails in the order
\* lookup, expiry, usage, IP, signature, whatever the later checks would have
\* said, and the AuthService is called to resolve an identity only for a
\* request that no check rejected.
C14_ChecksInOrder == [][C14_OrderStep]_vars

\* a request to a webhook that is expired and over its usage cap, from an IP
\* that is not allowed and without the signature the webhook requires, was
\* rejected as expired
C14_Witness ==
    \E r \in Reqs : \E s \in RowsOf(r) :
        /\ Observed(r)
        /\ gate[r] = "expired"
        /\ ~IsNull(shortcuts[s].max_uses)
        /\ Val(shortcuts[s].max_uses) >= 1
        /\ shortcuts[s].trigger_count >= Val(shortcuts[s].max_uses)
        /\ ~IsNull(shortcuts[s].allowed_ips)
        /\ observed[r].clientIp = Some(<<IpB>>)
        /\ ~IsNull(shortcuts[s].webhook_secret)
        /\ RequestOf(r).signature = <<>>
        /\ RequestOf(r).cred # "none"
        /\ ~observed[r].resolved

C15_IdentityStep ==
    \A r \in Reqs :
        (/\ Received(r) /\ Observed(r)'
         /\ FailingChecks(Val(observed'[r].request), now) = <<>>)
        => LET q == Val(observed'[r].request)
           IN  /\ gate'[r] = "accepted"
               /\ resp'[r] \in {"none", "413 Payload too large"}
               /\ AuditsOf(r)' = {}
               /\ (/\ q.cred \in {"none", "session_expired", "apikey_invalid"}
                   /\ q.payloadSize <= MaxPayloadSize)
                  => /\ pc'[r] = "rl_read"
                     /\ rl'[r].identifier = <<"webhook", q.webhookId>>

\* C15: a request that no policy check of the gate fails is accepted whatever
\* credential it carries; it is not answered or audited as rejected, and with
\* no credential or one that does not resolve it goes on to the rate limiter
\* under the webhook's anonymous identifier.
C15_IdentityOptional == [][C15_IdentityStep]_vars

\* a request with an expired session was accepted after the AuthService was
\* called, and dispatched
C15_Witness ==
    \E r \in Reqs :
        /\ Observed(r)
        /\ RequestOf(r).cred = "session_expired"
        /\ observed[r].resolved
        /\ gate[r] = "accepted"
        /\ dispatchCount[r] = 1

\* -------------------------------------- properties of the accepted trigger
\* the requests whose analytics update has run
Counted(webhookId) ==
    {r \in Reqs : reqWebhookId[r] = webhookId /\ ExecutionsOf(r) # {} /\ pc[r] = "done"}

\* C16: an answered trigger without credential to a webhook without policy,
\* allowed by the rate limiter and dispatched with success, is answered 200
\* 'Shortcut triggered successfully', is counted once in trigger_count, and
\* leaves one analytics row for the webhook and the date, with
\* success_count = 1 when it is the first event of the day.
C16_AnonymousTriggerSucceeds ==
    \A r \in Reqs : \A s \in RowsOf(r) :
        (/\ Observed(r)
         /\ RequestOf(r).cred = "none"
         /\ gate[r] = "accepted"
         /\ rl[r].state = "allowed"
         /\ notif[r] = "sent"
         /\ pc[r] = "done")
        => /\ resp[r] = "200 Shortcut triggered successfully"
           /\ shortcuts[s].trigger_count =
                Cardinality({o \in Reqs : /\ reqWebhookId[o] = reqWebhookId[r]
                                          /\ notif[o] = "sent"
                                          /\ ExecutionsOf(o) # {}})
           /\ ~IsNull(analytics[reqWebhookId[r]])
           /\ Counted(reqWebhookId[r]) = {r} =>
                    Val(analytics[reqWebhookId[r]]).success_count = 1

\* the rate limiter denies request r in this step
Denies(r) == rl[r].state # "denied" /\ rl'[r].state = "denied"

C17_DenialStep ==
    \A r \in Reqs :
        /\ (/\ pc[r] = "rl_read" /\ pc'[r] # "rl_read"
            /\ rate_limits[<<rl[r].identifier, WindowStart(now, WindowMinutes)>>]
                    >= (IF IsNull(UserOf(rl[r].identifier))
                        THEN RateLimitPerMinute ELSE UserRateLimitPerMinute))
           => Denies(r)
        /\ Denies(r) =>
                /\ resp'[r] = "429 Rate limit exceeded"
                /\ RetryAfter(resp'[r]) = Some(60)
                /\ pc'[r] = "done"
                /\ rl'[r].remaining = 0
                /\ Len(audit_log') = Len(audit_log) + 1
                /\ SubSeq(audit_log', 1, Len(audit_log)) = audit_log
                /\ audit_log'[Len(audit_log')].req = r
                /\ audit_log'[Len(audit_log')].action = "webhook_trigger_rate_limited"
                /\ audit_log'[Len(audit_log')].resource_id = reqWebhookId[r]
                /\ UNCHANGED <<shortcuts, rate_limits, webhook_executions, analytics,
                               notif, dispatchCount>>
        /\ rl[r].state = "denied" =>
                /\ pc[r] = "done"
                /\ dispatchCount[r] = 0 /\ notif[r] = "none"
                /\ ExecutionsOf(r) = {}
                /\ Cardinality(AuditsOf(r)) = 1

\* C17: a request that finds its window's count at the limit is denied; the
\* denial answers 429 with Retry-After, appends one audit row
\* webhook_trigger_rate_limited and changes nothing else: no dispatch, no
\* execution or analytics row, trigger_count and the window's count as they
\* were; the request takes no further step.
C17_DeniedRequestStops == [][C17_DenialStep]_vars

\* one request was dispatched and recorded, the next one in the window was
\* denied and audited
C17_Witness ==
    \E r1, r2 \in Reqs :
        /\ ExecutionsOf(r1) # {}
        /\ rl[r2].state = "denied" /\ rl[r2].window = rl[r1].window
        /\ resp[r2] = "429 Rate limit exceeded"
        /\ \E i \in AuditsOf(r2) : audit_log[i].action = "webhook_trigger_rate_limited"

\* request r presents a credential that names an active user
Authenticated(r) ==
    Observed(r) /\ RequestOf(r).cred \in {"session_valid", "apikey_valid"}

\* C18: a trigger with a valid credential is counted under its user's
\* identifier and a trigger without credential under the webhook's, and a
\* trigger is denied only when the count of its own class's identifier has
\* reached that class's limit.
C18_BudgetsIsolated ==
    \A r \in Reqs :
        (Observed(r) /\ rl[r].identifier # <<>>) =>
            /\ Authenticated(r) => rl[r].identifier = <<"user", "u1">>
            /\ RequestOf(r).cred = "none" =>
                    rl[r].identifier = <<"webhook", reqWebhookId[r]>>
            /\ (Authenticated(r) /\ rl[r].state = "denied") =>
                    rate_limits[<<(<<"user", "u1">>), rl[r].window>>]
                        >= UserRateLimitPerMinute

\* C19: a request whose dispatch was made and recorded is answered by the
\* dispatch outcome, 200 after a successful dispatch and 500 'Failed to send
\* notification' after a failed one, whether or not the audit row of the
\* trigger could be written.
C19_AuditFailureNotFatal ==
    \A r \in Reqs :
        (pc[r] = "done" /\ dispatchCount[r] = 1 /\ ExecutionsOf(r) # {}) =>
            resp[r] = (IF notif[r] = "sent"
                       THEN "200 Shortcut triggered successfully"
                       ELSE "500 Failed to send notification")

\* an error was thrown while request r was handled: by the signature check, by
\* the rate limiter's insert, or by the decryption of the device token
UnexpectedFailure(r) ==
    \/ gate[r] = "throw"
    \/ rl[r].state = "error"
    \/ (pc[r] = "done" /\ rl[r].state = "allowed" /\ dispatchCount[r] = 0)

\* C20: every received request is answered: a gate rejection by its own
\* response after its audit row, a failed dispatch by 500 'Failed to send
\* notification' after its execution row, and only an unexpected failure by
\* the generic 500 'Internal server error', after at most one audit row
\* webhook_trigger_error.
C20_ErrorsAbsorbed ==
    \A r \in Reqs :
        pc[r] = "done" =>
            /\ resp[r] # "none"
            /\ gate[r] \in GateRejections =>
                    resp[r] = GateResponse(gate[r]) /\ Cardinality(AuditsOf(r)) = 1
            /\ notif[r] = "not_sent" =>
                    /\ resp[r] = "500 Failed to send notification"
                    /\ ExecutionsOf(r) # {}
            /\ resp[r] = "500 Internal server error" <=> UnexpectedFailure(r)
            /\ UnexpectedFailure(r) =>
                    Cardinality({i \in AuditsOf(r) :
                            audit_log[i].action = "webhook_trigger_error"}) <= 1

\* the sessions row of a token, whatever its state
SessionOf(sessionToken) ==
    {s \in SessionIds : sessions[s].token_hash = sha256(sessionToken)}

\* C21: validateSession never resolves an identity from an expired session: a
\* validation of a token whose session expired before the call reports the
\* session absent and leaves its row inactive, and no step reactivates a row,
\* so every later validation reports absent too.
C21_ExpiredSessionAbsent ==
    /\ call.op = "validateSession" =>
            \A s \in SessionOf(call.input.sessionToken) :
                sessions[s].expires_at < call.at =>
                    /\ call.outcome = "null"
                    /\ ~sessions[s].is_active

\* the step is a call of op
Calls(op) == call'.n = call.n + 1 /\ call'.op = op

\* the key rows that make validateAPIKey(apiKey, requiredPermission) resolve at time t
ResolvingKeys(apiKey, requiredPermission, t) ==
    {k \in KeyIds :
        /\ api_keys[k].key_hash = sha256(apiKey)
        /\ api_keys[k].is_active
        /\ IsNull(api_keys[k].expires_at) \/ Val(api_keys[k].expires_at) >= t
        /\ users.is_active
        /\ \/ IsNull(requiredPermission)
           \/ Val(requiredPermission) \in api_keys[k].permissions
           \/ "*" \in api_keys[k].permissions}

C22_ApiKeyStep ==
    Calls("validateAPIKey") =>
        LET in == call'.input
            keys == ResolvingKeys(in.apiKey, in.requiredPermission, now)
        IN  /\ call'.outcome = "user" <=> keys # {}
            /\ \A k \in KeyIds :
                    IF k \in keys
                    THEN /\ api_keys'[k].last_used = Some(now)
                         /\ api_keys'[k].last_used_ip = Some(in.clientIp)
                    ELSE /\ api_keys'[k].last_used = api_keys[k].last_used
                         /\ api_keys'[k].last_used_ip = api_keys[k].last_used_ip

\* C22: validateAPIKey resolves an identity exactly when the key's hash matches
\* an active, unexpired key of an active user whose permissions hold the
\* required scope or the wildcard; it sets last_used and last_used_ip (to the
\* caller's address) exactly when it resolves and leaves them alone otherwise.
C22_ApiKeyResolution == [][C22_ApiKeyStep]_vars

\* the credentials a request presents, in the order header key, bearer token,
\* query key
Presented(request) ==
    (IF ~IsNull(request.xApiKey) /\ Val(request.xApiKey) # ""
     THEN <<[type |-> "api-key", credential |-> Val(request.xApiKey)]>> ELSE <<>>)
    \o (IF ~IsNull(request.authorization) /\ Val(request.authorization).scheme = "Bearer"
        THEN <<[type |-> "session", credential |-> Val(request.authorization).credential]>>
        ELSE <<>>)
    \o (IF ~IsNull(request.queryApiKey) /\ Val(request.queryApiKey) # ""
        THEN <<[type |-> "api-key", credential |-> Val(request.queryApiKey)]>> ELSE <<>>)

\* the raw credential resolves an identity from the stored rows at time t
Resolves(auth, requiredPermission, t) ==
    IF auth.type = "session"
    THEN /\ users.is_active
         /\ \E s \in SessionIds : /\ sessions[s].token_hash = sha256(auth.credential)
                                  /\ sessions[s].is_active
                                  /\ sessions[s].expires_at >= t
    ELSE ResolvingKeys(auth.credential, requiredPermission, t) # {}

C23_CredentialStep ==
    Calls("requireAuth") =>
        LET presented == Presented(call'.input.request)
        IN  IF presented = <<>>
            THEN /\ call'.detail = <<>>
                 /\ call'.outcome = "401 Authentication required"
                 /\ UNCHANGED <<sessions, api_keys>>
            ELSE /\ call'.detail = <<Head(presented)>>
                 /\ call'.outcome = "success" =>
                        Resolves(Head(presented), call'.input.requiredPermission, now)
                 /\ IsNull(call'.user) <=> call'.outcome # "success"

\* C23: requireAuth validates exactly one credential per request, the first
\* present of the x-api-key header, the Bearer token and the api_key query
\* parameter; it never falls back to another credential of the request, so it
\* succeeds only if that one resolves; without any credential it validates
\* nothing and answers 401 'Authentication required'.
C23_OneCredential == [][C23_CredentialStep]_vars

\* a request whose x-api-key is not a stored key and whose Bearer token is a
\* live session was refused on its key
C23_Witness ==
    /\ call.op = "requireAuth"
    /\ call.input.request.xApiKey = Some("wc_k2")
    /\ call.input.request.authorization = Some([scheme |-> "Bearer", credential |-> "tok1"])
    /\ Resolves([type |-> "session", credential |-> "tok1"], Null, call.at)
    /\ call.detail = <<[type |-> "api-key", credential |-> "wc_k2"]>>
    /\ call.outcome # "success"

\* a stored hash with the pbkdf2 tag that hashPassword cannot have written: a
\* field is missing, or the salt is not a string of hex byte pairs
MalformedHash(h) ==
    /\ h[1] = "pbkdf2"
    /\ \/ Len(h) < 3
       \/ Len(h[2]) = 0
       \/ Len(h[2]) % 2 = 1
       \/ \E i \in 1..Len(h[2]) : h[2][i] \notin {"0", "a"}

\* C29: verifyPassword fails closed: against a malformed stored hash with the
\* pbkdf2 tag it returns false, and it throws only for another tag; a login of
\* an active user against a malformed hash ends as 'Invalid credentials'.
C29_VerifyFailsClosed ==
    LET h == user_account.password_hash
    IN  /\ call.op = "verifyPassword" =>
                /\ h[1] = "pbkdf2" => call.outcome \in {"true", "false"}
                /\ MalformedHash(h) => call.outcome = "false"
                /\ h[1] # "pbkdf2" => call.outcome = "throw Unsupported hash algorithm"
        /\ (/\ call.op = "authenticateUser"
            /\ call.input.email = "u1@example.com"
            /\ users.is_active
            /\ MalformedHash(h)) => call.outcome = "throw Invalid credentials"

\* C24: a rotation that succeeds leaves the old webhook id resolving to no
\* webhook, the same shortcut row under the new id with its trigger count and
\* policy fields unchanged and a new secret, resolving as the old id did, and
\* exactly one more webhook_rotations row that links the old id to the new one
\* with the actor and the reason; a rotation step changes the shortcuts and the
\* rotation history together or not at all; and a trigger received on an id that
\* a rotation has replaced is answered not_found.
Rotates ==
    /\ call'.n = call.n + 1
    /\ call'.op \in {"rotateWebhookId", "handleWebhookRotation"}

Succeeded ==
    call'.outcome \in {"rotated", "200 Webhook rotated successfully"}

Replaced == {webhook_rotations[k].old_webhook_id : k \in 1..Len(webhook_rotations)}

C24_RotationStep ==
    /\ Rotates =>
        /\ (shortcuts' # shortcuts) <=> (webhook_rotations' # webhook_rotations)
        /\ Succeeded => shortcuts' # shortcuts
        /\ \A s \in ShortcutIds : shortcuts'[s] # shortcuts[s] =>
            LET old == shortcuts[s].webhook_id
                new == shortcuts'[s].webhook_id
                actor == IF call'.op = "rotateWebhookId" THEN call'.input.userId
                         ELSE Val(call'.user)
                reason == IF call'.op = "rotateWebhookId" THEN call'.input.reason
                          ELSE IF IsNull(call'.input.body.reason) THEN "manual_rotation"
                          ELSE Val(call'.input.body.reason)
            IN  /\ new # old
                /\ \A x \in ShortcutIds : shortcuts'[x].webhook_id # old
                /\ ~IsNull(getShortcutByWebhook(old))
                        => shortcuts'[s].is_active /\ devices'.is_active /\ users'.is_active
                /\ shortcuts'[s] = [shortcuts[s] EXCEPT
                        !.webhook_id = new,
                        !.webhook_secret = shortcuts'[s].webhook_secret]
                /\ ~IsNull(shortcuts'[s].webhook_secret)
                /\ shortcuts'[s].webhook_secret # shortcuts[s].webhook_secret
                /\ \A w \in Replaced : new # w
                /\ devices' = devices /\ users' = users
                /\ webhook_rotations' = Append(webhook_rotations,
                        [shortcut_id |-> s, old_webhook_id |-> old, new_webhook_id |-> new,
                         rotated_by |-> actor, reason |-> reason])
    /\ \A r \in Reqs :
        (pc[r] = "idle" /\ pc'[r] # "idle" /\ reqWebhookId'[r] \in Replaced)
            => gate'[r] = "not_found"

C24_RotationAtomic == [][C24_RotationStep]_vars

\* a rotation by the owner has replaced the id of a webhook that resolves, and a
\* trigger on the replaced id was answered not_found
C24_Witness ==
    /\ call.op = "rotateWebhookId" /\ call.outcome = "rotated"
    /\ Len(webhook_rotations) = 1
    /\ shortcuts["s1"].webhook_id = "wh2"
    /\ shortcuts["s1"].trigger_count = 1
    /\ ~IsNull(getShortcutByWebhook("wh2"))
    /\ \E r \in Reqs : reqWebhookId[r] = "wh1" /\ gate[r] = "not_found"

\* C25: a request that passes the gate and whose payload is larger than 4096
\* bytes is answered 413 without any dispatch call, and a request whose payload
\* is at most 4096 bytes is never answered 413; the size is the byte size of the
\* payload.
C25_PayloadCapInBytes ==
    \A r \in Reqs :
        (Observed(r) /\ gate[r] = "accepted") =>
            LET bytes == ByteLength(RequestOf(r).payload)
            IN  /\ bytes > MaxPayloadSize =>
                    resp[r] = "413 Payload too large" /\ dispatchCount[r] = 0
                /\ bytes <= MaxPayloadSize => resp[r] # "413 Payload too large"

\* C27 (as stated): updateAnalytics creates the day's row with trigger_count 1 and
\* the event counted as one success or one failure when there is none; otherwise
\* it adds 1 to trigger_count and to exactly one of success_count and
\* failure_count, and sets the average to exactly
\* (oldAvg * oldCount + newLatency) / (oldCount + 1).
UpdatesAnalytics == call'.n = call.n + 1 /\ call'.op = "updateAnalytics"

CountersStep(w) ==
    LET new == Val(analytics'[w])
        success == call'.input.success
    IN  IF IsNull(analytics[w])
        THEN /\ new.trigger_count = 1
             /\ new.success_count = (IF success THEN 1 ELSE 0)
             /\ new.failure_count = (IF success THEN 0 ELSE 1)
        ELSE LET old == Val(analytics[w])
             IN  /\ new.trigger_count = old.trigger_count + 1
                 /\ new.success_count = old.success_count + (IF success THEN 1 ELSE 0)
                 /\ new.failure_count = old.failure_count + (IF success THEN 0 ELSE 1)

\* oldAvg * oldCount + newLatency, for the update of an existing row
LatencySum(w) ==
    Val(analytics[w]).avg_response_time_ms * Val(analytics[w]).trigger_count
        + call'.input.responseTime

C27_ExactStep ==
    UpdatesAnalytics =>
        LET w == call'.input.webhookId
        IN  /\ ~IsNull(analytics'[w])
            /\ CountersStep(w)
            /\ ~IsNull(analytics[w]) =>
                    Val(analytics'[w]).avg_response_time_ms * (Val(analytics[w]).trigger_count + 1)
                        = LatencySum(w)

C27_ExactAverage == [][C27_ExactStep]_vars

\* C27 (amended): the same, the average being set to
\* (oldAvg * oldCount + newLatency) / (oldCount + 1) up to rounding to a whole
\* millisecond: the stored value differs from the quotient by less than 1, the
\* count being the one before the update.
C27_RoundedStep ==
    UpdatesAnalytics =>
        LET w == call'.input.webhookId
        IN  /\ ~IsNull(analytics'[w])
            /\ CountersStep(w)
            /\ ~IsNull(analytics[w]) =>
                LET n == Val(analytics[w]).trigger_count + 1
                    stored == Val(analytics'[w]).avg_response_time_ms * n
                IN  /\ stored - LatencySum(w) < n
                    /\ LatencySum(w) - stored < n

C27_RoundedAverage == [][C27_RoundedStep]_vars

\* a second event of the day whose quotient is not a whole number has been counted
C27_Witness ==
    /\ call.op = "updateAnalytics" /\ call.outcome = "update"
    /\ (Val(call.detail).avg_response_time_ms * Val(call.detail).trigger_count
            + call.input.responseTime) % (Val(call.detail).trigger_count + 1) # 0
    /\ Val(analytics[call.input.webhookId]).trigger_count = 2

\* C30: the usage cap is checked before the execution is recorded, so trigger
\* requests that overlap can pass the check on the same trigger_count and leave
\* more than max_uses successful executions and a trigger_count above max_uses;
\* when the requests of a run never overlap, a webhook with max_uses = N >= 1
\* has at most N successful executions and a trigger_count of at most N.
SuccessfulExecutions(webhookId) ==
    {k \in 1..Len(webhook_executions) :
        /\ webhook_executions[k].webhook_id = webhookId
        /\ webhook_executions[k].status = "success"}

OverCap(s) ==
    /\ ~IsNull(shortcuts[s].max_uses)
    /\ Val(shortcuts[s].max_uses) >= 1
    /\ \/ shortcuts[s].trigger_count > Val(shortcuts[s].max_uses)
       \/ Cardinality(SuccessfulExecutions(shortcuts[s].webhook_id))
            > Val(shortcuts[s].max_uses)

C30_CapStrictWithoutOverlap ==
    \A s \in ShortcutIds : OverCap(s) => peak >= 2

\* two overlapping requests have both succeeded on a webhook with max_uses = 1
C30_Witness ==
    \E s \in ShortcutIds :
        /\ shortcuts[s].max_uses = Some(1)
        /\ shortcuts[s].trigger_count = 2
        /\ Cardinality(SuccessfulExecutions(shortcuts[s].webhook_id)) = 2
        /\ \A r \in 1..2 : gate[r] = "accepted" /\ dispatchCount[r] = 1 /\ pc[r] = "done"
        /\ peak = 2

\* C28: in the routed trigger handler, with WEBHOOK_SECRET configured, a request
\* without a signature header is not answered 401; a request whose signature
\* header is the hex HMAC of its raw body under the secret passes the signature
\* step, whether or not the body is JSON that the handler parses; and a request
\* with any other signature is answered 401 after the signature step alone,
\* without a lookup, a rate-limit or a dispatch call and with the tables
\* unchanged.
C28_SignatureStep ==
    (Calls("handleWebhookRequest") /\ ~IsNull(env.WEBHOOK_SECRET)) =>
        LET q == call'.input
            matching == q.signature = ToHex(HmacSha256(q.body, Val(env.WEBHOOK_SECRET)))
        IN  /\ q.signature = <<>> => call'.outcome # "401 Invalid signature"
            /\ matching => call'.outcome # "401 Invalid signature"
            /\ (q.signature # <<>> /\ ~matching) =>
                    /\ call'.outcome = "401 Invalid signature"
                    /\ call'.detail = <<"validateWebhookSignature">>
                    /\ v1' = v1

C28_SignatureOptional == [][C28_SignatureStep]_vars

\* C26: in every reachable state no row of the store and no line of the log
\* holds a device token, a session token or an API key itself: a device token is
\* kept only encrypted or hashed, a session token and an API key only as a hash
\* (and the key's display prefix).
C26_NoRawSecrets ==
    /\ \A d \in v1.devices : d.device_token[1] # "plain"
    /\ \A line \in console : line.data.device_token[1] # "plain"
    /\ \A s \in SessionIds :
            sessions[s] # NoSession => sessions[s].token_hash[1] = "sha256"
    /\ \A k \in KeyIds :
            api_keys[k] # NoApiKey =>
                /\ api_keys[k].key_hash[1] = "sha256"
                /\ api_keys[k].key_prefix[1] = "prefix"

\* the rows of webhookId whose usage cap is set and reached
CapReached(webhookId) ==
    {s \in Resolvable(webhookId) :
        /\ ~IsNull(shortcuts[s].max_uses)
        /\ shortcuts[s].trigger_count >= Val(shortcuts[s].max_uses)}

C31_UsageStep ==
    \A r \in Reqs :
        /\ (/\ Received(r)
            /\ \E s \in CapReached(reqWebhookId'[r]) :
                    ~(~IsNull(shortcuts[s].expires_at) /\ Val(shortcuts[s].expires_at) < now))
           => /\ gate'[r] = "usage_exceeded"
              /\ resp'[r] = "429 Webhook usage limit exceeded"
              /\ dispatchCount'[r] = 0
        /\ dispatchCount'[r] > dispatchCount[r] =>
                \A s \in ShortcutIds :
                    shortcuts[s].webhook_id = reqWebhookId[r]
                        => shortcuts[s].max_uses # Some(0)

\* C31: a trigger that reaches the usage check of a webhook whose max_uses is
\* set, 0 included, and whose trigger_count >= max_uses is rejected with
\* usage_exceeded; no dispatch is ever made for a webhook whose max_uses is 0.
C31_UsageCheckEverySetValue == [][C31_UsageStep]_vars

\* one call of checkRateLimit follows another with the same identifier and size
AnotherCheck ==
    /\ call.op = "checkRateLimit" /\ call'.op = "checkRateLimit"
    /\ call'.n = call.n + 1
    /\ call'.input.identifier = call.input.identifier
    /\ call'.input.windowMinutes = call.input.windowMinutes

C32_WindowStep ==
    /\ (call'.op = "checkRateLimit" /\ call'.n = call.n + 1) =>
            /\ Val(call'.detail) <= call'.at
            /\ call'.at < Val(call'.detail) + call'.input.windowMinutes * TicksPerMinute
    /\ AnotherCheck =>
            (Val(call'.detail) = Val(call.detail)
                <=> /\ Val(call.detail) <= call'.at
                    /\ call'.at < Val(call.detail) + call.input.windowMinutes * TicksPerMinute)

Recorded(webhookId, statuses) ==
    Cardinality({i \in 1..Len(webhook_executions) :
                    /\ webhook_executions[i].webhook_id = webhookId
                    /\ webhook_executions[i].status \in statuses})

\* C33: whenever no trigger request is in flight, the analytics row of a webhook
\* counts the execution rows recorded for it: trigger_count all of them,
\* success_count those with status success, failure_count those with status
\* failed, and there is no row when nothing was recorded.
C33_AnalyticsCountsExecutions ==
    (\A r \in Reqs : pc[r] \in {"idle", "done"}) =>
        \A w \in WebhookIds :
            IF IsNull(analytics[w]) THEN Recorded(w, {"success", "failed"}) = 0
            ELSE /\ Val(analytics[w]).trigger_count = Recorded(w, {"success", "failed"})
                 /\ Val(analytics[w]).success_count = Recorded(w, {"success"})
                 /\ Val(analytics[w]).failure_count = Recorded(w, {"failed"})

\* the step is a request to a management endpoint
Manages ==
    /\ call'.n = call.n + 1
    /\ call'.op \in {"handleWebhookRotation", "handleWebhookUpdate", "handleWebhookStats"}

\* the users the request authenticates as: the owner of the live credential it
\* presents first
ActingUsers(request, op, t) ==
    LET auth == Head(Presented(request))
        scope == IF op = "handleWebhookStats" THEN Null ELSE Some("webhook:manage")
    IN  IF Presented(request) = <<>> \/ ~Resolves(auth, scope, t) THEN {}
        ELSE IF auth.type = "session"
        THEN {sessions[s].user_id : s \in {x \in SessionIds :
                    sessions[x].token_hash = sha256(auth.credential) /\ sessions[x].is_active}}
        ELSE {api_keys[k].user_id : k \in ResolvingKeys(auth.credential, scope, t)}

C34_OwnerOnlyStep ==
    Manages =>
        \A u \in ActingUsers(call'.input.request, call'.op, now) :
            (\E s \in ShortcutIds : /\ shortcuts[s].webhook_id = call'.input.webhookId
                                    /\ OwnerOf(s) # u)
            => /\ call'.outcome = "404 Webhook not found or access denied"
               /\ IsNull(call'.detail)
               /\ UNCHANGED <<shortcuts, webhook_rotations>>

\* C34: a request to rotate, update or read the statistics of a webhook, made
\* with a live credential of a user who does not own the webhook, is answered
\* 404, leaves the shortcuts row and the rotation history unchanged and carries
\* no column of the row in its response.
C34_ManagementOwnerOnly == [][C34_OwnerOnlyStep]_vars

\* the step is a registration request for a device token that an active devices
\* row holds already
ReRegisters(d) ==
    /\ call'.n = call.n + 1
    /\ call'.op = "handleRegistration"
    /\ ~IsNull(call'.input.deviceToken)
    /\ d \in v1.devices
    /\ d.is_active
    /\ d.device_token = <<"plain", Val(call'.input.deviceToken)>>

C35_ReRegistrationStep ==
    \A d \in v1.devices :
        ReRegisters(d) =>
            /\ call'.outcome = "200 Device and shortcuts registered successfully"
            /\ \A old \in v1.shortcuts :
                    old.device_id = d.id =>
                        ~\E s \in v1'.shortcuts : s.webhook_id = old.webhook_id /\ s.is_active
            /\ \A k \in 1..Len(call'.input.shortcuts) :
                    Cardinality({s \in v1'.shortcuts :
                                    /\ s.device_id = d.id
                                    /\ s.shortcut_id = call'.input.shortcuts[k]
                                    /\ s.is_active}) = 1

\* C35: a registration request for a device that is registered already is
\* answered 200, leaves every webhook id issued to the device before it
\* inactive, and leaves exactly one active webhook for each shortcut of the
\* request, also for a shortcut id that was registered before.
C35_CleanReRegistration == [][C35_ReRegistrationStep]_vars


\* C36: a trigger attempt that the gate rejects, for whichever reason, leaves
\* trigger_count and last_triggered of every webhook, every rate-limit window,
\* every analytics row, every session and every API key as they were; of
\* these stores and the audit log it changes only the audit log, by the one
\* row it appends.
C36_RejectionStep ==
    \A r \in Reqs :
        (Received(r) /\ gate'[r] \in GateRejections) =>
            /\ UNCHANGED <<shortcuts, rate_limits, analytics, sessions, api_keys>>
            /\ Len(audit_log') = Len(audit_log) + 1
            /\ SubSeq(audit_log', 1, Len(audit_log)) = audit_log
            /\ audit_log'[Len(audit_log')].action = "webhook_trigger_unauthorized"

C36_RejectionLeavesStoresAlone == [][C36_RejectionStep]_vars

\* a rejected attempt answered after another trigger was counted in its
\* window, in the analytics row and in trigger_count
C36_Witness ==
    \E r \in Reqs :
        /\ gate[r] \in GateRejections /\ pc[r] = "done"
        /\ \E o \in Reqs : o < r /\ gate[o] = "accepted" /\ pc[o] = "done"
        /\ \E k \in DOMAIN rate_limits : rate_limits[k] > 0
        /\ \E w \in DOMAIN analytics : ~IsNull(analytics[w])
        /\ \E s \in DOMAIN shortcuts : shortcuts[s].trigger_count > 0


\* C37: each (identifier, window_start) has one rate-limit row at most, and
\* its request_count is the number of checks that were admitted for that
\* identifier in that window, however the checks interleave: of two checks
\* that both find no row for a fresh window, one inserts the row and is
\* admitted, the other fails on UNIQUE(identifier, window_start) and is not.
C37_CountEqualsAdmitted ==
    \A key \in DOMAIN rate_limits :
        rate_limits[key] = Cardinality(Admitted(key[1], key[2]))

\* two checks found no row for the same fresh window, one of them inserted it
\* and the other failed, and a third was admitted by an update of that row
C37_Witness ==
    \E r1, r2, r3 \in Reqs :
        LET key == <<rl[r1].identifier, rl[r1].window>>
        IN  /\ rl[r1].read = 0 /\ rl[r1].state = "allowed"
            /\ rl[r2].read = 0 /\ rl[r2].state = "error"
            /\ rl[r3].read = 1 /\ rl[r3].state = "allowed"
            /\ <<rl[r2].identifier, rl[r2].window>> = key
            /\ <<rl[r3].identifier, rl[r3].window>> = key
            /\ rate_limits[key] = 2


\* the shortcut a webhook id belongs or belonged to: the row that carries it
\* now, or the row a rotation took it from
ShortcutsOfWebhook(rows, rotations, webhookId) ==
    {s \in DOMAIN rows : rows[s].webhook_id = webhookId}
        \cup {rotations[i].shortcut_id : i \in {j \in DOMAIN rotations :
                                                  rotations[j].old_webhook_id = webhookId}}

SuccessRows(execs, rows, rotations, s) ==
    {i \in DOMAIN execs : /\ execs[i].status = "success"
                          /\ s \in ShortcutsOfWebhook(rows, rotations, execs[i].webhook_id)}

\* C38: trigger_count of a webhook equals the number of execution rows with
\* status success recorded for its shortcut in every reachable state: every
\* step changes the two by the same amount, also the recording of a trigger
\* that passed the gate before a rotation of the webhook id committed.
C38_CountStep ==
    \A s \in ShortcutIds :
        shortcuts'[s].trigger_count - shortcuts[s].trigger_count =
            Cardinality(SuccessRows(webhook_executions', shortcuts', webhook_rotations', s))
                - Cardinality(SuccessRows(webhook_executions, shortcuts, webhook_rotations, s))

C39_DispatchStep ==
    \A r \in Reqs :
        dispatchCount'[r] > dispatchCount[r] => reqWebhookId[r] \notin Replaced

C39_RotationRevokes == [][C39_DispatchStep]_vars


\* C40: dbInitialized becomes true only in a step in which an initialization of
\* the store completes successfully, and never returns to false; a request
\* that arrives while it is false, whatever its method and path, awaits an
\* initialization first, and when that fails it is answered 500 with no route
\* taken and the flag, the tables and the console as they were; so the CORS
\* preflight and the routes run only with the flag true and the tables in
\* place, and /health never reports the database as not initialized.
C40_WorkerStep ==
    /\ dbInitialized' # dbInitialized =>
            /\ ~dbInitialized /\ dbInitialized' /\ tablesCreated'
            /\ \E r \in Reqs : pc[r] = "initialize" /\ pc'[r] = "route"
    /\ \A r \in Reqs :
            /\ (pc[r] = "idle" /\ pc'[r] # "idle" /\ ~dbInitialized) =>
                    pc'[r] = "initialize"
            /\ (pc[r] = "initialize" /\ pc'[r] = "done") =>
                    /\ resp'[r] = "500 Database initialization failed"
                    /\ UNCHANGED <<dbInitialized, tablesCreated, v1, console, call>>
            /\ (pc[r] = "initialize" /\ pc'[r] = "route") => dbInitialized'
            /\ pc'[r] = "route" => dbInitialized'
            /\ resp'[r] # "200 healthy, database not initialized"
    /\ call' # call =>
            /\ dbInitialized /\ tablesCreated
            /\ \E r \in Reqs : pc[r] = "route" /\ pc'[r] = "done"

====
